---- MODULE Spec2Model ----
(***************************************************************************)
(* aws-downscaler: the time-window evaluation and scale-decision engine.   *)
(*                                                                         *)
(* Instants are whole seconds counted from Monday 2024-03-11T00:00:00Z.    *)
(* Window specifications, tag keys and tag values are strings, handled     *)
(* character by character as the Python code handles them.  A Python       *)
(* function whose locals are used more than once is written as a chain of  *)
(* operators, each local being a parameter of the next operator.           *)
(***************************************************************************)
EXTENDS Integers, Sequences, FiniteSets, TLC

(***************************************************************************)
(* Characters and the Python string methods the code calls.               *)
(***************************************************************************)

Char(s, i) == SubSeq(s, i, i)

\* Each upper-case letter with its lower-case letter.
LowerOf ==
    ("A" :> "a") @@ ("B" :> "b") @@ ("C" :> "c") @@ ("D" :> "d") @@ ("E" :> "e")
      @@ ("F" :> "f") @@ ("G" :> "g") @@ ("H" :> "h") @@ ("I" :> "i")
      @@ ("J" :> "j") @@ ("K" :> "k") @@ ("L" :> "l") @@ ("M" :> "m")
      @@ ("N" :> "n") @@ ("O" :> "o") @@ ("P" :> "p") @@ ("Q" :> "q")
      @@ ("R" :> "r") @@ ("S" :> "s") @@ ("T" :> "t") @@ ("U" :> "u")
      @@ ("V" :> "v") @@ ("W" :> "w") @@ ("X" :> "x") @@ ("Y" :> "y")
      @@ ("Z" :> "z")

UpperLetters == DOMAIN LowerOf

Digits == {"0", "1", "2", "3", "4", "5", "6", "7", "8", "9"}

Whitespace == {" ", "\t"}

DigitVal(c) ==
    CASE c = "0" -> 0 [] c = "1" -> 1 [] c = "2" -> 2 [] c = "3" -> 3
      [] c = "4" -> 4 [] c = "5" -> 5 [] c = "6" -> 6 [] c = "7" -> 7
      [] c = "8" -> 8 [] OTHER -> 9

\* str.lower() on one character.
LowerChar(c) == IF c \in UpperLetters THEN LowerOf[c] ELSE c

RECURSIVE StrLower(_)
\* str.lower()
StrLower(s) ==
    IF s = "" THEN "" ELSE LowerChar(Head(s)) \o StrLower(Tail(s))

\* `c in s` for a one-character c.
Contains(s, c) == \E i \in 1..Len(s) : Char(s, i) = c

\* s.startswith(p)
StartsWith(s, p) == Len(s) >= Len(p) /\ SubSeq(s, 1, Len(p)) = p

RECURSIVE FirstKept(_, _, _)
\* The first position from i on of a character not in cs; Len(s) + 1 if none.
FirstKept(s, cs, i) ==
    IF i > Len(s) \/ Char(s, i) \notin cs THEN i ELSE FirstKept(s, cs, i + 1)

RECURSIVE LastKept(_, _, _)
\* The last position up to i of a character not in cs; 0 if none.
LastKept(s, cs, i) ==
    IF i < 1 \/ Char(s, i) \notin cs THEN i ELSE LastKept(s, cs, i - 1)

\* str.strip(chars): both ends.
Strip(s, cs) == SubSeq(s, FirstKept(s, cs, 1), LastKept(s, cs, Len(s)))

RECURSIVE FindFrom(_, _, _)
\* The first position from i on of a character of `seps`; Len(s) + 1 if none.
FindFrom(s, seps, i) ==
    IF i > Len(s) \/ Char(s, i) \in seps THEN i ELSE FindFrom(s, seps, i + 1)

RECURSIVE SplitFrom(_, _, _)
\* The pieces of s from position i on, the next separator being at j.
SplitAt(s, seps, i, j) ==
    IF j > Len(s) THEN <<SubSeq(s, i, Len(s))>>
    ELSE <<SubSeq(s, i, j - 1)>> \o SplitFrom(s, seps, j + 1)

SplitFrom(s, seps, i) == SplitAt(s, seps, i, FindFrom(s, seps, i))

\* s.split(sep) / re.split("[...]", s): every separator character ends a
\* piece; empty pieces are kept.
SplitOn(s, seps) == SplitFrom(s, seps, 1)

\* The non-empty members of a list of strings, in order.
NonEmpty(parts) == SelectSeq(parts, LAMBDA p : p # "")

\* str.split() without arguments: runs of whitespace separate, no empty piece.
SplitWhitespace(s) == NonEmpty(SplitOn(s, Whitespace))

RECURSIVE Replace(_, _, _)
\* s.replace(old, new), every occurrence, left to right (old is not empty).
Replace(s, old, new) ==
    IF s = "" THEN ""
    ELSE IF StartsWith(s, old)
         THEN new \o Replace(SubSeq(s, Len(old) + 1, Len(s)), old, new)
         ELSE Head(s) \o Replace(Tail(s), old, new)

RECURSIVE DigitsOnly(_)
\* An integer literal without the underscores that may separate its digits.
DigitsOnly(s) ==
    IF s = "" THEN ""
    ELSE (IF Head(s) = "_" THEN "" ELSE Head(s)) \o DigitsOnly(Tail(s))

\* The body of an integer literal after its sign: digits, single underscores
\* between digits allowed.
IntBodyOk(s) ==
    /\ s # ""
    /\ \A i \in 1..Len(s) : Char(s, i) \in Digits \cup {"_"}
    /\ Char(s, 1) # "_"
    /\ Char(s, Len(s)) # "_"
    /\ \A i \in 1..(Len(s) - 1) : ~(Char(s, i) = "_" /\ Char(s, i + 1) = "_")

RECURSIVE NatVal(_, _)
NatVal(s, acc) ==
    IF s = "" THEN acc ELSE NatVal(Tail(s), 10 * acc + DigitVal(Head(s)))

PyIntSigned(sign, body) ==
    IF IntBodyOk(body)
    THEN [ok |-> TRUE, v |-> sign * NatVal(DigitsOnly(body), 0)]
    ELSE [ok |-> FALSE, v |-> 0]

PyIntStripped(t) ==
    IF t # "" /\ Head(t) = "-" THEN PyIntSigned(0 - 1, Tail(t))
    ELSE IF t # "" /\ Head(t) = "+" THEN PyIntSigned(1, Tail(t))
    ELSE PyIntSigned(1, t)

\* int(s): surrounding whitespace ignored, an optional sign, decimal digits.
\* [ok |-> FALSE] stands for the ValueError.
PyInt(s) == PyIntStripped(Strip(s, Whitespace))

(***************************************************************************)
(* Calendar.  datetime arithmetic, in whole seconds.                       *)
(***************************************************************************)

SecondsPerMinute == 60

SecondsPerHour == 3600

SecondsPerDay == 86400

DaysPerWeek == 7

\* Days from 1970-01-01 to the proleptic Gregorian date y-m-d.
DaysFromCivil(y, m, d) ==
    LET yy == IF m <= 2 THEN y - 1 ELSE y
        era == yy \div 400
        yoe == yy - era * 400
        mp == IF m > 2 THEN m - 3 ELSE m + 9
        doy == (153 * mp + 2) \div 5 + d - 1
        doe == yoe * 365 + yoe \div 4 - yoe \div 100 + doy
    IN  era * 146097 + doe - 719468

\* 2024-03-11, a Monday: instant 0 is its midnight in UTC.
EpochDay == DaysFromCivil(2024, 3, 11)

IsLeap(y) == (y % 4 = 0 /\ y % 100 # 0) \/ y % 400 = 0

DaysInMonth(y, m) ==
    IF m = 2 THEN (IF IsLeap(y) THEN 29 ELSE 28)
    ELSE IF m \in {4, 6, 9, 11} THEN 30 ELSE 31

\* datetime(y, m, d, h, mi, s, tzinfo=UTC) as an instant.
Instant(y, m, d, h, mi, s) ==
    (DaysFromCivil(y, m, d) - EpochDay) * SecondsPerDay
        + h * SecondsPerHour + mi * SecondsPerMinute + s

\* date(), as a day number, of a wall-clock second count.
DateOf(wall) == wall \div SecondsPerDay

\* time(), as seconds since midnight, of a wall-clock second count.
TimeOf(wall) == wall % SecondsPerDay

\* weekday(): Monday is 0.
WeekdayOf(wall) == DateOf(wall) % DaysPerWeek

\* time(hour, minute) as seconds since midnight.
TimeObj(hour, minute) == hour * SecondsPerHour + minute * SecondsPerMinute

(***************************************************************************)
(* Time zones.  pytz.timezone(name): the zones the model knows, each with  *)
(* the UTC offset it has throughout the modelled days (March 2024).        *)
(***************************************************************************)

KnownZones == {"utc", "asia/tokyo", "america/new_york"}

\* pytz looks names up without regard to case.
ZoneKnown(name) == StrLower(name) \in KnownZones

ZoneOffset(n) ==
    CASE n = "asia/tokyo" -> 9 * SecondsPerHour
      [] n = "america/new_york" -> 0 - 4 * SecondsPerHour
      [] OTHER -> 0

UtcOffset(name) == ZoneOffset(StrLower(name))

(***************************************************************************)
(* TimeWindow: evaluation at an instant.                                   *)
(***************************************************************************)

\* now.astimezone(self.timezone), as wall-clock seconds.
LocalNow(w, now) == now + UtcOffset(w.timezone)

\* `x in list`
InList(x, list) == \E i \in 1..Len(list) : list[i] = x

\* A variant of ActiveAt without the test of the weekday.
ActiveAtAnyDay(w, local_now) ==
    IF w.end_time < w.start_time
    THEN TimeOf(local_now) >= w.start_time \/ TimeOf(local_now) <= w.end_time
    ELSE w.start_time <= TimeOf(local_now) /\ TimeOf(local_now) <= w.end_time

\* A variant of ActiveAt in which the window is over when its end time is
\* reached.
ActiveAtEndExclusive(w, local_now) ==
    /\ InList(WeekdayOf(local_now), w.weekdays)
    /\ IF w.end_time < w.start_time
       THEN TimeOf(local_now) >= w.start_time \/ TimeOf(local_now) < w.end_time
       ELSE w.start_time <= TimeOf(local_now) /\ TimeOf(local_now) < w.end_time

\* A variant of ActiveAt that tests the weekday of the day on which the span
\* of an overnight window started.
ActiveAtSpanStartDay(w, local_now) ==
    IF w.end_time < w.start_time
    THEN \/ /\ TimeOf(local_now) >= w.start_time
            /\ InList(WeekdayOf(local_now), w.weekdays)
         \/ /\ TimeOf(local_now) <= w.end_time
            /\ InList(WeekdayOf(local_now - SecondsPerDay), w.weekdays)
    ELSE /\ InList(WeekdayOf(local_now), w.weekdays)
         /\ w.start_time <= TimeOf(local_now)
         /\ TimeOf(local_now) <= w.end_time

\* The recurring part of is_active, at wall-clock time local_now.
ActiveAt(w, local_now) ==
    LET start_dt == DateOf(local_now) * SecondsPerDay + w.start_time
        end_dt == DateOf(local_now) * SecondsPerDay + w.end_time
    IN  IF ~InList(WeekdayOf(local_now), w.weekdays) THEN FALSE
        ELSE IF w.end_time < w.start_time
             THEN IF TimeOf(local_now) >= w.start_time
                  THEN start_dt <= local_now
                         /\ local_now <= end_dt + SecondsPerDay
                  ELSE IF TimeOf(local_now) <= w.end_time
                       THEN start_dt - SecondsPerDay <= local_now
                              /\ local_now <= end_dt
                       ELSE FALSE
             ELSE start_dt <= local_now /\ local_now <= end_dt

\* TimeWindow.is_active
IsActive(w, now) ==
    IF ~w.recurring THEN w.start_dt <= now /\ now <= w.end_dt
    ELSE ActiveAt(w, LocalNow(w, now))

\* A variant of GraceAt that forgets to add the grace period to the end.
GraceAtEnd(w, local_now, grace_period) ==
    /\ local_now <= DateOf(local_now) * SecondsPerDay + w.end_time
                      + (IF w.end_time < w.start_time THEN SecondsPerDay ELSE 0)
    /\ InList(WeekdayOf(local_now), w.weekdays)

\* The recurring part of is_within_grace_period, the window not being active.
GraceAt(w, local_now, grace_period) ==
    /\ local_now <= DateOf(local_now) * SecondsPerDay + w.end_time
                      + (IF w.end_time < w.start_time THEN SecondsPerDay ELSE 0)
                      + grace_period
    /\ InList(WeekdayOf(local_now), w.weekdays)

\* TimeWindow.is_within_grace_period
IsWithinGracePeriod(w, now, grace_period) ==
    IF ~w.recurring THEN now <= w.end_dt + grace_period
    ELSE IF ~IsActive(w, now) THEN GraceAt(w, LocalNow(w, now), grace_period)
    ELSE FALSE

\* any(window.is_active(now) for window in windows)
AnyActive(windows, now) == \E i \in 1..Len(windows) : IsActive(windows[i], now)

(***************************************************************************)
(* State.                                                                  *)
(*   config     the Config the process was started with                    *)
(*   resources  the resources as the cloud holds them, in listing order    *)
(*   now        the clock (UTC)                                            *)
(*   last       what the most recent cycle at this instant did: the        *)
(*              resources it found, and one report per resource            *)
(*   listed     the resources as they were before the first cycle of the   *)
(*              process touched them                                       *)
(***************************************************************************)
VARIABLES config, resources, now, last, listed

vars == <<config, resources, now, last, listed>>

(***************************************************************************)
(* ISO-8601 date-times: what dateutil's parser.parse and                   *)
(* datetime.fromisoformat return for YYYY-MM-DD[(T| )HH:MM[:SS]][Z|+HH:MM].*)
(* ok: the text is a date-time; aware: it carries an offset; utc: the      *)
(* instant (for a naive value, read as UTC); beyond: the instant in UTC of *)
(* an aware value lies outside datetime.min..datetime.max, so that         *)
(* astimezone(UTC) raises OverflowError.  parser.parse also reads a     *)
(* weekday followed by a time of day; see DateutilParse below.             *)
(***************************************************************************)

AllDigits(s) == s # "" /\ \A i \in 1..Len(s) : Char(s, i) \in Digits

NoDateTime == [ok |-> FALSE, aware |-> FALSE, utc |-> 0, beyond |-> FALSE]

\* Whether `secs` seconds after midnight of day number `day` is an instant no
\* datetime can hold: one before 0001-01-01 or after 9999-12-31 (secs lies
\* within a day of that day).
Beyond(day, secs) ==
    \/ day + secs \div SecondsPerDay > DaysFromCivil(9999, 12, 31) - EpochDay
    \/ day + secs \div SecondsPerDay < DaysFromCivil(1, 1, 1) - EpochDay

\* The offset suffix: [ok, aware, off]
ParseOffset(s) ==
    IF s = "" THEN [ok |-> TRUE, aware |-> FALSE, off |-> 0]
    ELSE IF s = "Z" THEN [ok |-> TRUE, aware |-> TRUE, off |-> 0]
    ELSE IF /\ Len(s) = 6
            /\ Head(s) \in {"+", "-"}
            /\ AllDigits(SubSeq(s, 2, 3))
            /\ Char(s, 4) = ":"
            /\ AllDigits(SubSeq(s, 5, 6))
            /\ NatVal(SubSeq(s, 2, 3), 0) <= 23
            /\ NatVal(SubSeq(s, 5, 6), 0) <= 59
         THEN [ok |-> TRUE, aware |-> TRUE,
               off |-> (IF Head(s) = "-" THEN 0 - 1 ELSE 1)
                         * (NatVal(SubSeq(s, 2, 3), 0) * SecondsPerHour
                              + NatVal(SubSeq(s, 5, 6), 0) * SecondsPerMinute)]
         ELSE [ok |-> FALSE, aware |-> FALSE, off |-> 0]

\* The clock part HH:MM[:SS] and what follows it: [ok, secs, rest]
ParseClock(s) ==
    IF /\ Len(s) >= 5
       /\ AllDigits(SubSeq(s, 1, 2))
       /\ Char(s, 3) = ":"
       /\ AllDigits(SubSeq(s, 4, 5))
    THEN LET h == NatVal(SubSeq(s, 1, 2), 0)
             mi == NatVal(SubSeq(s, 4, 5), 0)
             hasSec == /\ Len(s) >= 8
                       /\ Char(s, 6) = ":"
                       /\ AllDigits(SubSeq(s, 7, 8))
             sec == IF hasSec THEN NatVal(SubSeq(s, 7, 8), 0) ELSE 0
         IN  [ok |-> h <= 23 /\ mi <= 59 /\ sec <= 59,
              secs |-> h * SecondsPerHour + mi * SecondsPerMinute + sec,
              rest |-> IF hasSec THEN SubSeq(s, 9, Len(s)) ELSE SubSeq(s, 6, Len(s))]
    ELSE [ok |-> FALSE, secs |-> 0, rest |-> ""]

\* The date-time of day number `day`, clock c and offset o.
DateTimeOf(day, c, o) ==
    IF ~(c.ok /\ o.ok) THEN NoDateTime
    ELSE IF o.aware /\ Beyond(day, c.secs - o.off)
         THEN [ok |-> TRUE, aware |-> TRUE, utc |-> 0, beyond |-> TRUE]
         ELSE [ok |-> TRUE, aware |-> o.aware,
               utc |-> day * SecondsPerDay + c.secs - o.off, beyond |-> FALSE]

ClockAndOffset(day, c) == DateTimeOf(day, c, ParseOffset(c.rest))

\* The date-time of the date y-m-d followed by `rest`.
DateAnd(y, m, d, rest) ==
    IF ~(y >= 1 /\ m \in 1..12 /\ d >= 1 /\ d <= DaysInMonth(y, m)) THEN NoDateTime
    ELSE IF rest = ""
         THEN [ok |-> TRUE, aware |-> FALSE,
               utc |-> (DaysFromCivil(y, m, d) - EpochDay) * SecondsPerDay,
               beyond |-> FALSE]
    ELSE IF Head(rest) \notin {"T", " "} THEN NoDateTime
    ELSE ClockAndOffset(DaysFromCivil(y, m, d) - EpochDay, ParseClock(Tail(rest)))

ParseIsoDateTime(s) ==
    IF /\ Len(s) >= 10
       /\ AllDigits(SubSeq(s, 1, 4))
       /\ Char(s, 5) = "-"
       /\ AllDigits(SubSeq(s, 6, 7))
       /\ Char(s, 8) = "-"
       /\ AllDigits(SubSeq(s, 9, 10))
    THEN DateAnd(NatVal(SubSeq(s, 1, 4), 0), NatVal(SubSeq(s, 6, 7), 0),
                 NatVal(SubSeq(s, 9, 10), 0), SubSeq(s, 11, Len(s)))
    ELSE NoDateTime

(***************************************************************************)
(* What parser.parse makes of `<weekdays> <clock>`, the shape of a         *)
(* recurring specification.  A "+" or "-" after a time of day starts a UTC *)
(* offset, so "09:00-17:00" is 09:00 at seventeen hours west of UTC; of    *)
(* several weekday names the last one counts, and the date is the first    *)
(* day from today on that falls on it.  Today is the date of `now`: the    *)
(* machine's clock is taken to run on UTC.  A third word is accepted only  *)
(* as one of the parser's names for UTC, and only after a time without an  *)
(* offset.  A text of any other shape, or one the parser reads as a naive  *)
(* date-time, gives NoDateTime: _parse_spec handles both alike.            *)
(***************************************************************************)

\* parserinfo.WEEKDAYS, lower-cased: index i + 1 holds the names of weekday i.
ParserInfoWeekdays ==
    <<{"mon", "monday"}, {"tue", "tuesday"}, {"wed", "wednesday"},
      {"thu", "thursday"}, {"fri", "friday"}, {"sat", "saturday"},
      {"sun", "sunday"}>>

\* parserinfo.UTCZONE
UTCZONE == {"UTC", "GMT", "Z", "z"}

IsWeekdayName(name) == \E i \in 1..DaysPerWeek : name \in ParserInfoWeekdays[i]

WeekdayIndex(name) ==
    CHOOSE i \in 0..(DaysPerWeek - 1) : name \in ParserInfoWeekdays[i + 1]

\* default + relativedelta(weekday=wd): the first day from `today` on that
\* falls on weekday wd.
OnOrAfter(today, wd) ==
    today + (((wd + DaysPerWeek) - (today % DaysPerWeek)) % DaysPerWeek)

\* The time of day H[H]:MM[:SS] split at its colons: [ok, secs]
ClockOfFields(f) ==
    IF /\ Len(f) \in {2, 3}
       /\ AllDigits(f[1]) /\ Len(f[1]) <= 2 /\ NatVal(f[1], 0) <= 23
       /\ AllDigits(f[2]) /\ Len(f[2]) = 2 /\ NatVal(f[2], 0) <= 59
       /\ (Len(f) = 3 => AllDigits(f[3]) /\ Len(f[3]) = 2 /\ NatVal(f[3], 0) <= 59)
    THEN [ok |-> TRUE,
          secs |-> NatVal(f[1], 0) * SecondsPerHour
                     + NatVal(f[2], 0) * SecondsPerMinute
                     + (IF Len(f) = 3 THEN NatVal(f[3], 0) ELSE 0)]
    ELSE [ok |-> FALSE, secs |-> 0]

\* The size of the offset written HHMM, H[H] or H[H]:M[M], split at its colon;
\* a day for a text that is none of these.
OffsetSeconds(f) ==
    IF Len(f) = 1 /\ AllDigits(f[1]) /\ Len(f[1]) = 4
    THEN NatVal(SubSeq(f[1], 1, 2), 0) * SecondsPerHour
           + NatVal(SubSeq(f[1], 3, 4), 0) * SecondsPerMinute
    ELSE IF Len(f) = 1 /\ AllDigits(f[1]) /\ Len(f[1]) <= 2
    THEN NatVal(f[1], 0) * SecondsPerHour
    ELSE IF /\ Len(f) = 2
            /\ AllDigits(f[1]) /\ Len(f[1]) <= 2
            /\ AllDigits(f[2]) /\ Len(f[2]) <= 2
    THEN NatVal(f[1], 0) * SecondsPerHour + NatVal(f[2], 0) * SecondsPerMinute
    ELSE SecondsPerDay

\* tzoffset(None, signal * secs): an offset has to be less than a day.
SignedOffset(signal, secs) ==
    [ok |-> secs < SecondsPerDay, aware |-> TRUE,
     off |-> IF signal = "-" THEN 0 - secs ELSE secs]

\* The clock token on day number `day`, its sign (if any) at position j,
\* and the word after it.
ClockOn(day, clock, j, zone) ==
    IF j > Len(clock)
    THEN IF zone \in UTCZONE
         THEN DateTimeOf(day, ClockOfFields(SplitOn(clock, {":"})),
                         SignedOffset("+", 0))
         ELSE NoDateTime
    ELSE IF zone # "" THEN NoDateTime
    ELSE DateTimeOf(day, ClockOfFields(SplitOn(SubSeq(clock, 1, j - 1), {":"})),
                    SignedOffset(Char(clock, j),
                                 OffsetSeconds(SplitOn(SubSeq(clock, j + 1, Len(clock)),
                                                       {":"}))))

\* The weekday names of the first word, then the clock.
DayAndClock(names, clock, zone, today) ==
    IF \E i \in 1..Len(names) : ~IsWeekdayName(names[i]) THEN NoDateTime
    ELSE ClockOn(OnOrAfter(today, WeekdayIndex(names[Len(names)])), clock,
                 FindFrom(clock, {"+", "-"}, 1), zone)

\* The words of a text that starts with weekday names.
ParseWeekdayClock(words, today) ==
    IF Len(words) \notin {2, 3} THEN NoDateTime
    ELSE DayAndClock(SplitOn(StrLower(words[1]), {"-"}), words[2],
                     IF Len(words) = 3 THEN words[3] ELSE "", today)

\* An ISO date-time dt if the text is one, else the weekday reading.
OrWeekdayClock(dt, s) ==
    IF dt.ok THEN dt ELSE ParseWeekdayClock(SplitWhitespace(s), DateOf(now))

\* dateutil.parser.parse(spec)
DateutilParse(s) == OrWeekdayClock(ParseIsoDateTime(s), s)

\* datetime.fromisoformat(s)
FromIsoFormat(s) == ParseIsoDateTime(s)

(***************************************************************************)
(* TimeWindow: parsing one specification.                                  *)
(***************************************************************************)

WEEKDAYS ==
    [n \in {"mon", "tue", "wed", "thu", "fri", "sat", "sun", "monday",
            "tuesday", "wednesday", "thursday", "friday", "saturday",
            "sunday"} |->
        CASE n \in {"mon", "monday"} -> 0
          [] n \in {"tue", "tuesday"} -> 1
          [] n \in {"wed", "wednesday"} -> 2
          [] n \in {"thu", "thursday"} -> 3
          [] n \in {"fri", "friday"} -> 4
          [] n \in {"sat", "saturday"} -> 5
          [] OTHER -> 6]

\* list(range(a, b))
Range(a, b) == [i \in 1..(IF b > a THEN b - a ELSE 0) |-> a + i - 1]

\* What a failed parse gives: ok = FALSE stands for the exception raised,
\* a ValueError.
NoWindow ==
    [ok |-> FALSE, recurring |-> TRUE, weekdays |-> <<>>, start_time |-> 0,
     end_time |-> 0, timezone |-> "UTC", start_dt |-> 0, end_dt |-> 0,
     raised |-> "ValueError"]

NoTime == [ok |-> FALSE, t |-> 0]

\* time(hour, minute) of the two converted fields.
MakeTime(hour, minute) ==
    IF hour.ok /\ minute.ok /\ hour.v \in 0..23 /\ minute.v \in 0..59
    THEN [ok |-> TRUE, t |-> TimeObj(hour.v, minute.v)]
    ELSE NoTime

\* hour, minute = map(int, ...) on the pieces of the split.
TimeOfFields(hm) ==
    IF Len(hm) # 2 THEN NoTime ELSE MakeTime(PyInt(hm[1]), PyInt(hm[2]))

\* TimeWindow._parse_time: [ok, t]
ParseTime(time_str) == TimeOfFields(SplitOn(time_str, {":"}))

NoDays == [ok |-> FALSE, days |-> <<>>]

\* The days of a range start_day-end_day, wrapping over the end of the week.
WeekdayRange(se) ==
    IF Len(se) # 2 THEN NoDays
    ELSE IF se[1] \notin DOMAIN WEEKDAYS \/ se[2] \notin DOMAIN WEEKDAYS
         THEN NoDays
         ELSE [ok |-> TRUE,
               days |-> IF WEEKDAYS[se[2]] < WEEKDAYS[se[1]]
                        THEN Range(WEEKDAYS[se[1]], DaysPerWeek)
                               \o Range(0, WEEKDAYS[se[2]] + 1)
                        ELSE Range(WEEKDAYS[se[1]], WEEKDAYS[se[2]] + 1)]

\* The days of the lower-cased weekday token.
WeekdaysOf(weekdays) ==
    IF Contains(weekdays, "-") THEN WeekdayRange(SplitOn(weekdays, {"-"}))
    ELSE IF weekdays \notin DOMAIN WEEKDAYS THEN NoDays
    ELSE [ok |-> TRUE, days |-> <<WEEKDAYS[weekdays]>>]

\* The weekday token of _parse_spec: [ok, days]
ParseWeekdays(token) == WeekdaysOf(StrLower(token))

\* The window of parsed days and times in zone tz_str.
TimedWindow(wd, start_time, end_time, tz_str) ==
    IF ~start_time.ok \/ ~end_time.ok THEN NoWindow
    ELSE IF ~ZoneKnown(tz_str) THEN NoWindow
    ELSE [ok |-> TRUE, recurring |-> TRUE, weekdays |-> wd.days,
          start_time |-> start_time.t, end_time |-> end_time.t,
          timezone |-> tz_str, start_dt |-> 0, end_dt |-> 0, raised |-> ""]

\* The window of parsed days wd and the time range split into se.
RangedWindow(wd, se, tz_str) ==
    IF ~wd.ok THEN NoWindow
    ELSE IF Len(se) # 2 THEN NoWindow
    ELSE TimedWindow(wd, ParseTime(se[1]), ParseTime(se[2]), tz_str)

\* The window of the whitespace-separated parts of a specification.
WindowOfParts(parts) ==
    IF Len(parts) < 2 THEN NoWindow
    ELSE RangedWindow(ParseWeekdays(parts[1]), SplitOn(parts[2], {"-"}),
                      IF Len(parts) > 2 THEN Strip(parts[3], {","}) ELSE "UTC")

\* The recurring branch of _parse_spec.
ParseRecurring(spec) == WindowOfParts(SplitWhitespace(spec))

\* A variant of WindowOfDate in which the window lasts a day from its start.
WindowOfDateDayLong(spec, dt) ==
    IF dt.ok /\ dt.aware
    THEN [ok |-> TRUE, recurring |-> FALSE, weekdays |-> <<>>,
          start_time |-> 0, end_time |-> 0, timezone |-> "UTC",
          start_dt |-> dt.utc,
          end_dt |-> dt.utc + SecondsPerDay - 1, raised |-> ""]
    ELSE ParseRecurring(spec)

\* The window of a specification that dateutil has read as dt.  An aware
\* date-time whose instant in UTC is out of the range of datetime makes
\* astimezone raise OverflowError, which _parse_spec does not catch.
WindowOfDate(spec, dt) ==
    IF dt.ok /\ dt.aware
    THEN IF dt.beyond
         THEN [NoWindow EXCEPT !.raised = "OverflowError"]
         ELSE [ok |-> TRUE, recurring |-> FALSE, weekdays |-> <<>>,
               start_time |-> 0, end_time |-> 0, timezone |-> "UTC",
               start_dt |-> dt.utc,
               end_dt |-> DateOf(dt.utc) * SecondsPerDay
                            + 23 * SecondsPerHour + 59 * SecondsPerMinute + 59,
               raised |-> ""]
    ELSE ParseRecurring(spec)

\* TimeWindow(spec): __init__ and _parse_spec.
ParseSpec(spec) == WindowOfDate(spec, DateutilParse(spec))

\* What parse_time_specs raises when TimeWindow(spec) raised: a ValueError
\* is caught and raised again with the piece in its message, any other
\* exception goes through as it is.  No list is returned.
NoWindows(raised, spec) ==
    [ok |-> FALSE, windows |-> <<>>, raised |-> raised,
     named |-> IF raised = "ValueError" THEN spec ELSE ""]

\* The list parse_time_specs returns.
Windows(windows) ==
    [ok |-> TRUE, windows |-> windows, raised |-> "", named |-> ""]

RECURSIVE ParseEach(_)
\* windows.append(window), then the rest of the loop.
AppendThen(window, rest) ==
    IF ~rest.ok THEN rest ELSE Windows(<<window>> \o rest.windows)

\* One piece `spec` parsed to `window`, pieces `more` still to go.
ParsedThen(spec, window, more) ==
    IF ~window.ok THEN NoWindows(window.raised, spec)
    ELSE AppendThen(window, ParseEach(more))

\* One stripped piece, pieces `more` still to go.
ParsePiece(spec, more) ==
    IF spec = "" THEN ParseEach(more)
    ELSE ParsedThen(spec, ParseSpec(spec), more)

\* The loop of parse_time_specs over the pieces: [ok, windows, raised, named]
ParseEach(pieces) ==
    IF pieces = <<>> THEN Windows(<<>>)
    ELSE ParsePiece(Strip(Head(pieces), Whitespace), Tail(pieces))

None == "<None>"

\* TimeWindow.parse_time_specs(specs); None and "" give the empty list.
ParseTimeSpecs(specs) ==
    IF specs = None \/ specs = "" THEN Windows(<<>>)
    ELSE ParseEach(SplitOn(specs, {",", ";"}))

(***************************************************************************)
(* Config                                                                  *)
(***************************************************************************)

\* A variant of ConfigValid without the check of grace_period.
ConfigValidScaleOnly(c) ==
    ~(c.downtime_scale < 0 \/ c.downtime_scale > 100)

\* Config.__post_init__: the two checks that raise ValueError.
ConfigValid(c) ==
    /\ ~(c.downtime_scale < 0 \/ c.downtime_scale > 100)
    /\ ~(c.grace_period < 0)

\* One round of the loop of should_process_resource over exclude_resources:
\* fnmatch for a pattern that ends in "*" (and has no other wildcard), the
\* name itself for any other pattern.
ExcludePatternMatches(pattern, resource_name) ==
    IF pattern # "" /\ Char(pattern, Len(pattern)) = "*"
    THEN StartsWith(resource_name, SubSeq(pattern, 1, Len(pattern) - 1))
    ELSE pattern = resource_name

\* Config.should_process_resource of the configuration c.  No handler calls
\* it: BaseResource.should_process has tests of its own (Listed below).
ShouldProcessResource(c, resource_type, resource_name) ==
    IF c.include_resources # <<>>
          /\ ~(\E k \in 1..Len(c.include_resources) :
                   c.include_resources[k] = resource_type)
    THEN FALSE
    ELSE ~(\E k \in 1..Len(c.exclude_resources) :
               ExcludePatternMatches(c.exclude_resources[k], resource_name))

RECURSIVE DictGet(_, _, _)
\* dict.get(key, default) on a list of <<key, value>> pairs in which a later
\* pair replaces an earlier one with the same key.
DictGet(pairs, key, default) ==
    IF pairs = <<>> THEN default
    ELSE IF pairs[Len(pairs)][1] = key THEN pairs[Len(pairs)][2]
    ELSE DictGet(SubSeq(pairs, 1, Len(pairs) - 1), key, default)

\* tags[key.replace("downscaler:", "")] = value, for a downscaler key.
TagEntry(key, value) ==
    IF StartsWith(key, "downscaler:")
    THEN <<<<Replace(key, "downscaler:", ""), value>>>>
    ELSE <<>>

RECURSIVE GetResourceTagsOf(_)
\* Config.get_resource_tags: the downscaler tags, as <<name, value>> pairs.
GetResourceTagsOf(aws_tags) ==
    IF aws_tags = <<>> THEN <<>>
    ELSE TagEntry(StrLower(IF "Key" \in DOMAIN Head(aws_tags)
                           THEN Head(aws_tags).Key ELSE ""),
                  IF "Value" \in DOMAIN Head(aws_tags)
                  THEN Head(aws_tags).Value ELSE "")
           \o GetResourceTagsOf(Tail(aws_tags))

(***************************************************************************)
(* BaseResource and its two handlers.                                      *)
(***************************************************************************)

\* resource.get("Tags", [])
AwsTags(resource) == IF "Tags" \in DOMAIN resource THEN resource.Tags ELSE <<>>

NameFields == <<"Name", "name", "ResourceName", "ServiceName", "Id", "ResourceId", "Arn">>

RECURSIVE NameTag(_)
\* The value of the first tag whose key is Name.
NameTag(aws_tags) ==
    IF aws_tags = <<>> THEN "unknown"
    ELSE IF "Key" \in DOMAIN Head(aws_tags) /\ Head(aws_tags).Key = "Name"
         THEN (IF "Value" \in DOMAIN Head(aws_tags)
               THEN Head(aws_tags).Value ELSE "unknown")
         ELSE NameTag(Tail(aws_tags))

\* BaseResource.get_resource_name
GetResourceName(resource) ==
    IF \E i \in 1..Len(NameFields) : NameFields[i] \in DOMAIN resource
    THEN resource[NameFields[CHOOSE i \in 1..Len(NameFields) :
                     /\ NameFields[i] \in DOMAIN resource
                     /\ \A j \in 1..(i - 1) : NameFields[j] \notin DOMAIN resource]]
    ELSE NameTag(AwsTags(resource))

\* BaseResource.get_resource_tags
GetResourceTags(resource) == GetResourceTagsOf(AwsTags(resource))

\* The include and exclude lists of should_process.
Listed(name) ==
    IF config.include_resources # <<>> /\ ~InList(name, config.include_resources)
    THEN "no"
    ELSE IF config.exclude_resources # <<>> /\ InList(name, config.exclude_resources)
    THEN "no"
    ELSE "yes"

\* `now < until_dt`: comparing the aware `now` with a naive until_dt raises
\* TypeError, which the except clause for ValueError lets through.
ComparedWith(name, until_dt, t) ==
    IF ~until_dt.ok THEN Listed(name)
    ELSE IF ~until_dt.aware THEN "raise"
    ELSE IF t < until_dt.utc THEN "no"
    ELSE Listed(name)

\* The exclude-until tag of should_process.
ExcludedUntil(name, exclude_until, t) ==
    IF exclude_until = None \/ exclude_until = "" THEN Listed(name)
    ELSE ComparedWith(name, FromIsoFormat(Replace(exclude_until, "Z", "+00:00")), t)

\* A variant of ShouldProcessTagged that does not look at the exclude tag.
ShouldProcessTaggedUntilOnly(name, tags, t) ==
    ExcludedUntil(name, DictGet(tags, "exclude-until", None), t)

\* should_process for the resource's name and downscaler tags.
ShouldProcessTagged(name, tags, t) ==
    IF DictGet(tags, "exclude", None) = "true" THEN "no"
    ELSE ExcludedUntil(name, DictGet(tags, "exclude-until", None), t)

\* BaseResource.should_process: "yes", "no", or "raise" when it raises.
ShouldProcess(resource, t) ==
    ShouldProcessTagged(GetResourceName(resource), GetResourceTags(resource), t)

\* get_current_scale of the handler of the resource's kind.
GetCurrentScale(resource) ==
    IF resource.kind = "asg" THEN resource.DesiredCapacity
    ELSE resource.desiredCount

\* A variant of IntDiv100 that rounds up instead of down.
IntDiv100Up(x) == (x + 99) \div 100

\* int(x / 100) for x >= 0.
IntDiv100(x) == x \div 100

\* get_original_scale of the handler of the resource's kind.
GetOriginalScale(resource) ==
    IF resource.kind = "asg" THEN resource.MaxSize
    ELSE IF "deploymentConfiguration" \in DOMAIN resource
              /\ "maximumPercent" \in DOMAIN resource.deploymentConfiguration
         THEN IntDiv100(resource.desiredCount
                          * resource.deploymentConfiguration.maximumPercent)
         ELSE resource.desiredCount

Max(a, b) == IF a > b THEN a ELSE b

Min(a, b) == IF a < b THEN a ELSE b

\* A variant of SetScale that passes the scale on as it is given.
SetScaleUnclamped(resource, scale) ==
    IF resource.kind = "asg"
    THEN [resource EXCEPT !.DesiredCapacity = scale]
    ELSE [resource EXCEPT !.desiredCount = scale]

\* set_scale of the handler of the resource's kind: the resource as the cloud
\* holds it after the update call.
SetScale(resource, scale) ==
    IF resource.kind = "asg"
    THEN [resource EXCEPT !.DesiredCapacity =
              Max(resource.MinSize, Min(scale, resource.MaxSize))]
    ELSE [resource EXCEPT !.desiredCount = scale]

\* A variant of ScaleInRange that checks the lower end only.
ScaleInRangeNoCeiling(parsed) ==
    IF ~parsed.ok THEN config.downtime_scale
    ELSE IF parsed.v < 0 THEN config.downtime_scale
    ELSE parsed.v

\* The range check on the converted downtime-scale.
ScaleInRange(parsed) ==
    IF ~parsed.ok THEN config.downtime_scale
    ELSE IF parsed.v < 0 \/ parsed.v > 100 THEN config.downtime_scale
    ELSE parsed.v

\* int(...) of the downtime-scale tag, or of the configured value without it.
ScaleOf(given) ==
    IF given = None THEN config.downtime_scale ELSE ScaleInRange(PyInt(given))

\* The downtime percentage _process_resource settles on.
DowntimeScale(tags) == ScaleOf(DictGet(tags, "downtime-scale", None))

\* The loop of _process_resource over the uptime windows.
InGracePeriod(uptime, t) ==
    /\ config.grace_period > 0
    /\ \E i \in 1..Len(uptime) : IsWithinGracePeriod(uptime[i], t, config.grace_period)

\* A variant of TargetScale in which an active downtime window is looked at
\* before the uptime windows.
TargetScaleDowntimeFirst(uptime, downtime, original_scale, downtime_scale, t) ==
    IF AnyActive(downtime, t) THEN (original_scale * downtime_scale) \div 100
    ELSE IF AnyActive(uptime, t) THEN original_scale
    ELSE IF uptime # <<>> \/ downtime # <<>>
         THEN (original_scale * downtime_scale) \div 100
         ELSE original_scale

\* A variant of TargetScale in which a resource without uptime windows is
\* scaled down only while one of its downtime windows is active.
TargetScaleInDowntimeOnly(uptime, downtime, original_scale, downtime_scale, t) ==
    IF AnyActive(uptime, t) THEN original_scale
    ELSE IF \/ AnyActive(downtime, t)
            \/ (uptime # <<>> /\ ~AnyActive(uptime, t))
         THEN IntDiv100(original_scale * downtime_scale)
         ELSE original_scale

\* The target of _process_resource once it is past the grace check.
TargetScale(uptime, downtime, original_scale, downtime_scale, t) ==
    IF AnyActive(uptime, t) THEN original_scale
    ELSE IF \/ AnyActive(downtime, t)
            \/ (uptime # <<>> /\ ~AnyActive(uptime, t))
            \/ (uptime = <<>> /\ downtime # <<>>)
         THEN IntDiv100(original_scale * downtime_scale)
         ELSE original_scale

\* A report: what one cycle did with one resource.
\*   outcome  "unreached"  the loop ended before it came to the resource
\*            "aborted"    should_process raised; the loop ended here
\*            "skipped"    should_process said no
\*            "error"      _process_resource raised, caught by check_and_scale
\*            "grace"      suppressed by the grace period
\*            "dry_run"    target computed and logged, set_scale not called
\*            "scaled"     set_scale called with the target
\*   from, original, pct, to  the current scale, the original scale, the
\*            downtime percentage and the target of _process_resource
\*   called   whether set_scale was called
Report(outcome, from_scale, original_scale, downtime_scale, to_scale, called) ==
    [outcome |-> outcome, from |-> from_scale, original |-> original_scale,
     pct |-> downtime_scale, to |-> to_scale, called |-> called]

NoReport(outcome) == Report(outcome, 0, 0, 0, 0, FALSE)

\* Whether the cloud rejects the update call set_scale makes for the resource
\* (the client then raises): a resource that is being deleted.
UpdateRejected(resource) ==
    "Status" \in DOMAIN resource /\ resource.Status = "Delete in progress"

\* A variant of ApplyScale that leaves set_scale out when the target is the
\* current scale.
ApplyScaleIfChanged(resource, current_scale, original_scale, downtime_scale, target_scale) ==
    IF config.dry_run \/ target_scale = current_scale
    THEN [report |-> Report("dry_run", current_scale, original_scale,
                            downtime_scale, target_scale, FALSE),
          resource |-> resource]
    ELSE [report |-> Report("scaled", current_scale, original_scale,
                            downtime_scale, target_scale, TRUE),
          resource |-> SetScale(resource, target_scale)]

\* A variant of ApplyScale that does not look at the dry-run switch.
ApplyScaleAlways(resource, current_scale, original_scale, downtime_scale, target_scale) ==
    [report |-> Report("scaled", current_scale, original_scale,
                       downtime_scale, target_scale, TRUE),
     resource |-> SetScale(resource, target_scale)]

\* The end of _process_resource: the dry-run switch and set_scale.
ApplyScale(resource, current_scale, original_scale, downtime_scale, target_scale) ==
    IF config.dry_run
    THEN [report |-> Report("dry_run", current_scale, original_scale,
                            downtime_scale, target_scale, FALSE),
          resource |-> resource]
    ELSE IF UpdateRejected(resource)
    THEN [report |-> Report("error", current_scale, original_scale,
                            downtime_scale, target_scale, TRUE),
          resource |-> resource]
    ELSE [report |-> Report("scaled", current_scale, original_scale,
                            downtime_scale, target_scale, TRUE),
          resource |-> SetScale(resource, target_scale)]

\* A variant of Decide in which an active downtime window overrides the grace
\* period.
DecideDowntimeOverGrace(resource, uptime, downtime, downtime_scale, t) ==
    IF InGracePeriod(uptime, t) /\ ~AnyActive(downtime, t)
    THEN [report |-> Report("grace", GetCurrentScale(resource),
                            GetOriginalScale(resource), downtime_scale,
                            GetCurrentScale(resource), FALSE),
          resource |-> resource]
    ELSE ApplyScale(resource, GetCurrentScale(resource),
                    GetOriginalScale(resource), downtime_scale,
                    TargetScale(uptime, downtime, GetOriginalScale(resource),
                                downtime_scale, t))

\* _process_resource from the grace check on, the windows being parsed.
Decide(resource, uptime, downtime, downtime_scale, t) ==
    IF InGracePeriod(uptime, t)
    THEN [report |-> Report("grace", GetCurrentScale(resource),
                            GetOriginalScale(resource), downtime_scale,
                            GetCurrentScale(resource), FALSE),
          resource |-> resource]
    ELSE ApplyScale(resource, GetCurrentScale(resource),
                    GetOriginalScale(resource), downtime_scale,
                    TargetScale(uptime, downtime, GetOriginalScale(resource),
                                downtime_scale, t))

\* _process_resource once both tag values have gone through parse_time_specs.
ProcessParsed(resource, uptime, downtime, downtime_scale, t) ==
    IF ~uptime.ok \/ ~downtime.ok
    THEN [report |-> NoReport("error"), resource |-> resource]
    ELSE Decide(resource, uptime.windows, downtime.windows, downtime_scale, t)

\* A variant of ProcessTagged in which the windows of a tag are added to the
\* windows of the default instead of replacing them.
ProcessTaggedMerged(resource, tags, t) ==
    ProcessParsed(resource,
                  ParseTimeSpecs(DictGet(tags, "uptime", "") \o ";"
                                   \o (IF config.default_uptime = None THEN ""
                                       ELSE config.default_uptime)),
                  ParseTimeSpecs(DictGet(tags, "downtime", "") \o ";"
                                   \o (IF config.default_downtime = None THEN ""
                                       ELSE config.default_downtime)),
                  DowntimeScale(tags), t)

\* _process_resource for the resource's downscaler tags.
ProcessTagged(resource, tags, t) ==
    ProcessParsed(resource,
                  ParseTimeSpecs(DictGet(tags, "uptime", config.default_uptime)),
                  ParseTimeSpecs(DictGet(tags, "downtime", config.default_downtime)),
                  DowntimeScale(tags), t)

\* BaseResource._process_resource: the report, and the resource afterwards.
ProcessResource(resource, t) ==
    ProcessTagged(resource, GetResourceTags(resource), t)

RECURSIVE CheckAndScaleFrom(_, _, _, _, _)
\* The loop of check_and_scale after _process_resource has returned `done`
\* for the i-th resource.
Processed(kind, i, rs, reports, t, done) ==
    CheckAndScaleFrom(kind, i + 1, [rs EXCEPT ![i] = done.resource],
                      [reports EXCEPT ![i] = done.report], t)

\* The loop of check_and_scale at the i-th resource, should_process having
\* answered `should`.
Answered(kind, i, rs, reports, t, should) ==
    IF should = "raise"
    THEN [resources |-> rs,
          reports |-> [reports EXCEPT ![i] = NoReport("aborted")]]
    ELSE IF should = "no"
    THEN CheckAndScaleFrom(kind, i + 1, rs,
                           [reports EXCEPT ![i] = NoReport("skipped")], t)
    ELSE Processed(kind, i, rs, reports, t, ProcessResource(rs[i], t))

\* BaseResource.check_and_scale of the handler for `kind`, from the i-th
\* resource on: the resources and the reports when the loop is over.
CheckAndScaleFrom(kind, i, rs, reports, t) ==
    IF i > Len(rs) THEN [resources |-> rs, reports |-> reports]
    ELSE IF rs[i].kind # kind
         THEN CheckAndScaleFrom(kind, i + 1, rs, reports, t)
         ELSE Answered(kind, i, rs, reports, t, ShouldProcess(rs[i], t))

\* check_and_scale(now) of one handler.
CheckAndScale(kind, rs, reports, t) ==
    CheckAndScaleFrom(kind, 1, rs, reports, t)

\* Scheduler.resource_handlers
ResourceHandlers == <<"asg", "ecs">>

RECURSIVE RunHandlers(_, _, _, _)
\* A variant of HandlerDone in which a handler that raised ends run_once:
\* the handlers after it are not called.
HandlerDoneOrRaised(handlers, done, t) ==
    IF \E i \in DOMAIN done.reports : done.reports[i].outcome = "aborted"
    THEN done
    ELSE RunHandlers(handlers, done.resources, done.reports, t)

\* The loop of run_once after one handler has come back with `done`; a
\* handler that raised has been logged, and the next one runs.
HandlerDone(handlers, done, t) ==
    RunHandlers(handlers, done.resources, done.reports, t)

\* The loop of run_once over the handlers.
RunHandlers(handlers, rs, reports, t) ==
    IF handlers = <<>> THEN [resources |-> rs, reports |-> reports]
    ELSE HandlerDone(Tail(handlers), CheckAndScale(Head(handlers), rs, reports, t), t)

\* Scheduler.run_once
RunOnceResult(rs, t) ==
    RunHandlers(ResourceHandlers, rs,
                [i \in 1..Len(rs) |-> NoReport("unreached")], t)

(***************************************************************************)
(* The configurations, resources and instants the model runs over.         *)
(***************************************************************************)

\* How many days of clock, from Thursday 2024-03-14 on.
MaxDays == 3

\* How many cycles in a row at one instant.
MaxRuns == 2

\* No cycle is taken that would push a scale beyond this.
MaxScale == 8

Clock(h, mi, sec) == h * SecondsPerHour + mi * SecondsPerMinute + sec

TimesOfDay ==
    {Clock(0, 2, 0), Clock(8, 0, 0), Clock(10, 0, 0), Clock(17, 3, 0),
     Clock(17, 6, 0), Clock(23, 30, 0)}

Instants ==
    {Instant(2024, 3, 14, 0, 0, 0) + d * SecondsPerDay + tod :
        d \in 0..(MaxDays - 1), tod \in TimesOfDay}

Configs ==
    {c \in [dry_run : BOOLEAN,
            default_uptime : {None, "Mon-Fri 09:00-17:00 UTC"},
            default_downtime : {None, "Sat-Sun 00:00-23:59 UTC"},
            grace_period : {0, 300},
            include_resources : {<<>>},
            exclude_resources : {<<>>},
            downtime_scale : {0, 50}] : ConfigValid(c)}

Tag(key, value) == [Key |-> key, Value |-> value]

TagLists ==
    {<<>>,
     <<Tag("downscaler:uptime", "Mon-Fri 09:00-17:00 UTC")>>,
     <<Tag("Name", "web"),
       Tag("downscaler:uptime", "Mon-Fri 09:00-17:00 UTC"),
       Tag("downscaler:downtime", "Thu-Fri 00:00-23:59 UTC"),
       Tag("downscaler:downtime-scale", "33")>>,
     <<Tag("downscaler:uptime", "Mon-Sun 00:00-23:59 UTC")>>,
     <<Tag("Downscaler:Uptime", "Mon-Fri 22:00-06:00 UTC"),
       Tag("downscaler:downtime-scale", "abc")>>,
     <<Tag("downscaler:uptime", "2024-03-15T08:00:00-04:00")>>,
     <<Tag("downscaler:downtime", "Sat-Sun 00:00-23:59 UTC; Fri 17:00-23:59 UTC"),
       Tag("downscaler:downtime-scale", "101")>>,
     <<Tag("downscaler:uptime", "")>>}

TroubleTagLists ==
    {<<Tag("downscaler:uptime", "Mon-Fri 0900-1700 UTC")>>,
     <<Tag("downscaler:exclude-until", "2024-03-15T12:00:00")>>,
     <<Tag("downscaler:exclude-until", "2024-03-15T12:00:00Z")>>,
     <<Tag("downscaler:exclude", "true")>>}

\* An Auto Scaling Group as describe_auto_scaling_groups returns it.
Asg(min, max, desired, tags) ==
    [kind |-> "asg", AutoScalingGroupName |-> "asg", MinSize |-> min,
     MaxSize |-> max, DesiredCapacity |-> desired, Tags |-> tags]

\* An ECS service as describe_services returns it: without tags.
Ecs(desired) ==
    [kind |-> "ecs", clusterArn |-> "cluster", serviceName |-> "svc",
     desiredCount |-> desired]

EcsWithCeiling(desired, percent) ==
    [kind |-> "ecs", clusterArn |-> "cluster", serviceName |-> "svc",
     desiredCount |-> desired,
     deploymentConfiguration |-> [maximumPercent |-> percent]]

\* An Auto Scaling Group that is being deleted.
Deleting(asg) == [k \in DOMAIN asg \cup {"Status"} |->
                     IF k = "Status" THEN "Delete in progress" ELSE asg[k]]

PlainResources ==
    {Asg(1, 5, 3, tags) : tags \in TagLists}
      \cup {Asg(0, 4, 4, <<>>), Ecs(4), EcsWithCeiling(2, 200)}

TroubleResources ==
    {Asg(1, 5, 3, tags) : tags \in TroubleTagLists} \cup {Deleting(Asg(1, 5, 3, <<>>))}

ResourceLists ==
    {<<r>> : r \in PlainResources \cup TroubleResources}
      \cup {<<bad, r>> : bad \in TroubleResources, r \in {Asg(1, 5, 3, <<>>), Ecs(4)}}

(***************************************************************************)
(* The state machine.                                                      *)
(***************************************************************************)

NoCycle(rs) ==
    [runs |-> 0, before |-> rs,
     reports |-> [i \in 1..Len(rs) |-> NoReport("unreached")]]

Init ==
    /\ config \in Configs
    /\ resources \in ResourceLists
    /\ now \in Instants
    /\ last = NoCycle(resources)
    /\ listed = resources

\* The state after a cycle that came to `result`.
Cycle(result) ==
    /\ \A i \in 1..Len(resources) :
           GetCurrentScale(result.resources[i]) <= MaxScale
    /\ resources' = result.resources
    /\ last' = [runs |-> last.runs + 1, before |-> resources,
                reports |-> result.reports]
    /\ UNCHANGED <<config, now, listed>>

\* One cycle of Scheduler.run, or one run of the tool with --once.
RunOnce ==
    /\ last.runs < MaxRuns
    /\ Cycle(RunOnceResult(resources, now))

\* time.sleep(interval), and whatever else lets the clock move on: to the
\* next of the instants.
Sleep ==
    \E t \in Instants :
        /\ t > now
        /\ \A u \in Instants : u > now => t <= u
        /\ now' = t
        /\ last' = NoCycle(resources)
        /\ UNCHANGED <<config, resources, listed>>

Next == RunOnce \/ Sleep

Spec == Init /\ [][Next]_vars

(***************************************************************************)
(* The same process over tagged and listed resources: per-resource         *)
(* downtime-scale, exclude and exclude-until tags, and a configuration     *)
(* with include and exclude lists.                                         *)
(***************************************************************************)

\* The include_resources and exclude_resources of the configuration.
ResourceListings ==
    {<<<<>>, <<>>>>,
     <<<<"ecs">>, <<>>>>,
     <<<<"web">>, <<>>>>,
     <<<<>>, <<"prod-*">>>>,
     <<<<>>, <<"prod-service", "web">>>>,
     <<<<"asg", "ecs">>, <<"web">>>>}

TaggedConfigs ==
    {c \in [dry_run : BOOLEAN,
            default_uptime : {"Mon-Fri 09:00-17:00 UTC"},
            default_downtime : {None},
            grace_period : {0},
            include_resources : {l[1] : l \in ResourceListings},
            exclude_resources : {l[2] : l \in ResourceListings},
            downtime_scale : {0, 50, 100}] :
        /\ ConfigValid(c)
        /\ <<c.include_resources, c.exclude_resources>> \in ResourceListings}

NamedTagLists ==
    {<<>>,
     <<Tag("Name", "web")>>,
     <<Tag("Name", "prod-service")>>,
     <<Tag("Name", "ecs")>>}

ExcludedTagLists ==
    {<<Tag("downscaler:exclude", "true")>>,
     <<Tag("Name", "web"),
       Tag("downscaler:uptime", "Mon-Fri 0900-1700 UTC"),
       Tag("downscaler:exclude-until", "2024-03-15T12:00:00"),
       Tag("Downscaler:Exclude", "true")>>,
     <<Tag("downscaler:exclude", "false")>>,
     <<Tag("downscaler:exclude-until", "2024-03-15T10:00:00Z")>>,
     <<Tag("downscaler:exclude-until", "2024-03-15T06:00:00-04:00")>>,
     <<Tag("downscaler:exclude-until", "2024-03-15T12:00:00")>>,
     <<Tag("downscaler:exclude-until", "next week")>>,
     <<Tag("downscaler:exclude-until", "")>>}

ScaledTagLists ==
    {<<Tag("downscaler:downtime-scale", v)>> :
        v \in {"-5", "0", "33", " 7 ", "100", "101", "abc", "", "3.5"}}

TaggedResources ==
    {Asg(1, 5, 3, tags) :
        tags \in NamedTagLists \cup ExcludedTagLists \cup ScaledTagLists}
      \cup {Asg(2, 4, 4, <<>>), Ecs(4)}

TaggedResourceLists ==
    {<<r>> : r \in TaggedResources}
      \cup {<<Asg(1, 5, 3, tags), Ecs(4)>> : tags \in ExcludedTagLists}

InitTagged ==
    /\ config \in TaggedConfigs
    /\ resources \in TaggedResourceLists
    /\ now \in Instants
    /\ last = NoCycle(resources)
    /\ listed = resources

SpecTagged == InitTagged /\ [][Next]_vars

\* A process without include and exclude lists, over an Auto Scaling Group
\* with exclusion tags and an ECS service.
InitLoop ==
    /\ config \in {c \in TaggedConfigs :
                       c.include_resources = <<>> /\ c.exclude_resources = <<>>}
    /\ resources \in {<<Asg(1, 5, 3, tags), Ecs(4)>> : tags \in ExcludedTagLists}
    /\ now \in Instants
    /\ last = NoCycle(resources)
    /\ listed = resources

\* RunOnce can be taken: the guards of RunOnce and of Cycle.
RunOnceEnabled ==
    /\ last.runs < MaxRuns
    /\ \A i \in 1..Len(resources) :
           GetCurrentScale(RunOnceResult(resources, now).resources[i]) <= MaxScale

\* The loop of Scheduler.run: `while True` calls run_once and then sleeps,
\* so a cycle that can be taken is taken and the sleep after it ends.  The
\* first fairness condition is weak fairness of RunOnce written out with its
\* guard: only a step of RunOnce counts a cycle.  The shutdown interrupt is
\* left out.
SpecLoop ==
    /\ InitLoop
    /\ [][Next]_vars
    /\ ([]<>(~RunOnceEnabled) \/ []<><<last'.runs = last.runs + 1>>_vars)
    /\ WF_vars(Sleep)

(***************************************************************************)
(* Constructing a Config.  `last` holds the arguments and what became of   *)
(* the call; `config` is <<>> until a Config exists and <<c>> afterwards.  *)
(***************************************************************************)

ConfigArgs ==
    [dry_run : BOOLEAN,
     default_uptime : {None, "Mon-Fri 09:00-17:00 UTC"},
     default_downtime : {None},
     grace_period : {-1, 0, 1, 300},
     include_resources : {<<>>},
     exclude_resources : {<<>>},
     downtime_scale : {-1, 0, 1, 50, 99, 100, 101}]

InitConfig ==
    /\ config = <<>>
    /\ resources = <<>>
    /\ now = Instant(2024, 3, 14, 0, 0, 0)
    /\ last \in [args : ConfigArgs, outcome : {"pending"}]
    /\ listed = <<>>

\* Config(**args): the generated __init__ and then __post_init__.
Construct ==
    /\ last.outcome = "pending"
    /\ IF ConfigValid(last.args)
       THEN /\ config' = <<last.args>>
            /\ last' = [last EXCEPT !.outcome = "constructed"]
       ELSE /\ config' = config
            /\ last' = [last EXCEPT !.outcome = "ValueError"]
    /\ UNCHANGED <<resources, now, listed>>

SpecConfig == InitConfig /\ [][Construct]_vars

(***************************************************************************)
(* Auto Scaling Groups of several sizes, scaled by the cycles of the       *)
(* process and by direct calls of set_scale.                               *)
(***************************************************************************)

\* The largest scale asked of set_scale directly.
MaxRequest == 10

\* MinSize and MaxSize of the groups.
GroupSizes == {<<1, 5>>, <<0, 4>>, <<2, 2>>}

Groups ==
    {Asg(size[1], size[2], desired, <<>>) :
        size \in GroupSizes, desired \in 0..5}

InitGroups ==
    /\ config \in {c \in TaggedConfigs :
                      /\ ~c.dry_run
                      /\ c.include_resources = <<>>
                      /\ c.exclude_resources = <<>>}
    /\ resources \in {<<g>> : g \in {h \in Groups :
                                        /\ h.MinSize <= h.DesiredCapacity
                                        /\ h.DesiredCapacity <= h.MaxSize}}
    /\ now \in Instants
    /\ last = NoCycle(resources)
    /\ listed = resources

\* handler.set_scale(resources[i], scale), called as the tests call it.
SetScaleCall ==
    \E i \in 1..Len(resources), scale \in 0..MaxRequest :
        /\ resources' = [resources EXCEPT ![i] = SetScale(resources[i], scale)]
        /\ last' = [runs |-> 0, before |-> resources,
                    reports |-> [j \in 1..Len(resources) |->
                        IF j = i
                        THEN Report("set_scale", GetCurrentScale(resources[i]),
                                    GetOriginalScale(resources[i]), 0, scale, TRUE)
                        ELSE NoReport("unreached")]]
        /\ UNCHANGED <<config, now, listed>>

NextGroups == SetScaleCall \/ RunOnce \/ Sleep

SpecGroups == InitGroups /\ [][NextGroups]_vars

(***************************************************************************)
(* One TimeWindow: TimeWindow(spec), then window.is_active(now).  `last`   *)
(* holds the spec, how far the calls have come, the window that came of    *)
(* the spec and the answer of is_active.                                   *)
(***************************************************************************)

\* How many days the instants span, from Monday 2024-03-11.
MaxWindowDays == 7

WindowTimes ==
    {Clock(0, 0, 0), Clock(1, 0, 0), Clock(5, 0, 0), Clock(6, 0, 0),
     Clock(6, 0, 1), Clock(8, 59, 59), Clock(9, 0, 0), Clock(12, 0, 0),
     Clock(13, 0, 0), Clock(17, 0, 0), Clock(17, 0, 1), Clock(19, 0, 0),
     Clock(21, 0, 0), Clock(21, 0, 1), Clock(21, 59, 59), Clock(22, 0, 0),
     Clock(23, 0, 0), Clock(23, 59, 59)}

WindowInstants ==
    {Instant(2024, 3, 11, 0, 0, 0) + d * SecondsPerDay + tod :
        d \in 0..(MaxWindowDays - 1), tod \in WindowTimes}

WindowSpecs ==
    {"Mon-Fri 09:00-17:00 UTC",
     "Mon-Fri 22:00-06:00 UTC",
     "Mon-Fri 09:00-17:00 America/New_York",
     "Fri-Mon 22:00-06:00 Asia/Tokyo",
     "sunday 00:00-23:59",
     "Fri-Mon 22:00-06:00",
     "Wed 12:00-12:00 UTC",
     "2024-03-16T12:00:00Z",
     "2024-03-15T21:00:00-04:00",
     "2024-03-14T04:00:00+09:00",
     "Mon-Fri 0900-1700 UTC",
     "Mon-Fri 09:00-17:60 UTC",
     "Mon-Fri 09:00-17:60",
     "Mon-Fri 1_0:00-17:00 UTC",
     "Funday 09:00-17:00 UTC",
     "Mon-Fri 09:00-17:00 Mars/Olympus",
     "2024-03-15T12:00:00",
     "2024-03-16"}

InitWindow ==
    /\ config = <<>>
    /\ resources = <<>>
    /\ now \in WindowInstants
    /\ last \in [spec : WindowSpecs, stage : {"given"}, window : {NoWindow},
                 active : {FALSE}]
    /\ listed = <<>>

\* TimeWindow(spec) came to `window`, or raised ValueError.
Constructed(window) ==
    last' = [last EXCEPT !.window = window,
                         !.stage = IF window.ok THEN "parsed" ELSE "rejected"]

\* window = TimeWindow(spec)
NewTimeWindow ==
    /\ last.stage = "given"
    /\ Constructed(ParseSpec(last.spec))
    /\ UNCHANGED <<config, resources, now, listed>>

\* window.is_active(now)
CallIsActive ==
    /\ last.stage = "parsed"
    /\ last' = [last EXCEPT !.stage = "asked",
                            !.active = IsActive(last.window, now)]
    /\ UNCHANGED <<config, resources, now, listed>>

NextWindow == NewTimeWindow \/ CallIsActive

SpecWindow == InitWindow /\ [][NextWindow]_vars

(***************************************************************************)
(* Properties.  In a state with last.runs > 0 the step into it was a       *)
(* cycle: last.before holds the resources the cycle found, last.reports    *)
(* what it did with each of them, and resources what the cloud holds       *)
(* afterwards.                                                             *)
(***************************************************************************)

CycleRan == last.runs > 0

\* What parse_time_specs makes of the uptime and of the downtime value of the
\* i-th resource (its tag, or else the configured default).
UptimeWindows(i) ==
    ParseTimeSpecs(DictGet(GetResourceTags(last.before[i]), "uptime",
                           config.default_uptime)).windows

DowntimeWindows(i) ==
    ParseTimeSpecs(DictGet(GetResourceTags(last.before[i]), "downtime",
                           config.default_downtime)).windows

\* The cycle computed a target for the i-th resource.
Targeted(i) ==
    /\ CycleRan
    /\ \/ last.reports[i].outcome \in {"dry_run", "scaled"}
       \/ (last.reports[i].outcome = "error" /\ last.reports[i].called)

\* The cycle took the i-th resource as far as the grace check.
Evaluated(i) == Targeted(i) \/ (CycleRan /\ last.reports[i].outcome = "grace")

ScaleBefore(i) == GetCurrentScale(last.before[i])

ScaleAfter(i) == GetCurrentScale(resources[i])

\* t is the floor of original * pct / 100.
IsFloorOfPercent(t, original, pct) ==
    100 * t <= original * pct /\ original * pct < 100 * (t + 1)

\* C1: when a cycle is not suppressed by grace and an uptime window of the
\* resource is active, the target is the resource's original scale, whatever
\* the downtime windows and the downtime percentage are.
C1_UptimeTakesPriority ==
    \A i \in DOMAIN last.reports :
        (Targeted(i) /\ AnyActive(UptimeWindows(i), now))
            => /\ last.reports[i].to = last.reports[i].original
               /\ last.reports[i].original = GetOriginalScale(last.before[i])

\* An uptime and a downtime window are active at once, the percentage would
\* scale down, and the target is the original scale.
C1_Witness ==
    \E i \in DOMAIN last.reports :
        /\ Targeted(i)
        /\ AnyActive(UptimeWindows(i), now)
        /\ AnyActive(DowntimeWindows(i), now)
        /\ last.reports[i].pct < 100
        /\ last.reports[i].original > 0
        /\ last.reports[i].to = last.reports[i].original

\* The condition under which _process_resource is to scale down.
ScalesDown(i) ==
    LET uptime == UptimeWindows(i)
        downtime == DowntimeWindows(i)
    IN  /\ ~AnyActive(uptime, now)
        /\ \/ AnyActive(downtime, now)
           \/ uptime # <<>>
           \/ (uptime = <<>> /\ downtime # <<>>)

\* C2: when a cycle is not suppressed by grace, no uptime window is active,
\* and a downtime window is active or there is an uptime window or (no uptime
\* window and) a downtime window, the target is the floor of
\* original * percent / 100, the percent being in 0..100 and the target
\* between 0 and the original scale.
C2_DowntimeTargetIsFloor ==
    \A i \in DOMAIN last.reports :
        (Targeted(i) /\ ScalesDown(i))
            => /\ last.reports[i].pct \in 0..100
               /\ last.reports[i].original = GetOriginalScale(last.before[i])
               /\ IsFloorOfPercent(last.reports[i].to, last.reports[i].original,
                                   last.reports[i].pct)
               /\ 0 <= last.reports[i].to
               /\ last.reports[i].to <= last.reports[i].original

\* A scale-down whose target is rounded down from a fraction.
C2_Witness ==
    \E i \in DOMAIN last.reports :
        /\ Targeted(i)
        /\ ScalesDown(i)
        /\ (last.reports[i].original * last.reports[i].pct) % 100 # 0
        /\ last.reports[i].to > 0
        /\ last.reports[i].to < last.reports[i].original

\* C3 as stated: when the target equals the current scale, set_scale is not
\* invoked; it is invoked only when the target differs from the current scale.
C3_NoChangeSkipsSetScale ==
    \A i \in DOMAIN last.reports :
        (Targeted(i) /\ last.reports[i].called)
            => last.reports[i].to # last.reports[i].from

\* C3 amended: a cycle that computes a target invokes set_scale with it
\* exactly when it is not a dry run, whether or not the target equals the
\* current scale; the resource then has the scale set_scale gives it.
C3_SetScaleUnlessDryRun ==
    \A i \in DOMAIN last.reports :
        Targeted(i)
            => /\ last.reports[i].called <=> ~config.dry_run
               /\ last.reports[i].from = ScaleBefore(i)
               /\ last.reports[i].outcome = "scaled"
                    => resources[i] = SetScale(last.before[i], last.reports[i].to)

\* set_scale invoked with a target equal to the current scale.
C3_Witness ==
    \E i \in DOMAIN last.reports :
        /\ Targeted(i)
        /\ last.reports[i].outcome = "scaled"
        /\ last.reports[i].called
        /\ last.reports[i].to = last.reports[i].from

\* The i-th resource has no uptime or downtime tag and there is no default.
NoWindowsAtAll(i) ==
    /\ config.default_uptime = None
    /\ config.default_downtime = None
    /\ DictGet(GetResourceTags(last.before[i]), "uptime", None) = None
    /\ DictGet(GetResourceTags(last.before[i]), "downtime", None) = None

\* C4 as stated: on a resource without any uptime or downtime window a cycle
\* takes no scale action: the scale after the cycle is the scale before it,
\* whatever the current scale is.
C4_NoWindowsNoAction ==
    \A i \in DOMAIN last.reports :
        (CycleRan /\ NoWindowsAtAll(i)) => ScaleAfter(i) = ScaleBefore(i)

\* Some uptime window of the i-th resource is within grace.
AnyInGrace(i) ==
    LET uptime == UptimeWindows(i)
    IN  \E k \in 1..Len(uptime) :
            IsWithinGracePeriod(uptime[k], now, config.grace_period)

\* C5: with grace_period > 0 and an uptime window within grace, the cycle
\* performs no scale action on the resource (set_scale is not called, the
\* resource is unchanged), whatever the other rules would do; with
\* grace_period = 0 no cycle is suppressed.
C5_GraceComesFirst ==
    \A i \in DOMAIN last.reports :
        Evaluated(i)
            => /\ (config.grace_period > 0 /\ AnyInGrace(i))
                    => /\ last.reports[i].outcome = "grace"
                       /\ ~last.reports[i].called
                       /\ resources[i] = last.before[i]
               /\ config.grace_period = 0 => last.reports[i].outcome # "grace"

\* A cycle suppressed by grace while a downtime window is active and the
\* percentage would scale down.
C5_Witness ==
    \E i \in DOMAIN last.reports :
        /\ Evaluated(i)
        /\ last.reports[i].outcome = "grace"
        /\ AnyActive(DowntimeWindows(i), now)
        /\ last.reports[i].pct < 100
        /\ last.reports[i].original > 0
        /\ ~config.dry_run

\* Instant t is at or after an end boundary of window w and no more than g
\* seconds after it.  A recurring window's span that starts on local day d
\* ends on day d at end_time, or on the next day if the window is overnight.
WithinGraceOfAnEnd(w, t, g) ==
    IF ~w.recurring THEN w.end_dt <= t /\ t <= w.end_dt + g
    ELSE \E d \in (DateOf(LocalNow(w, t)) - 2)..DateOf(LocalNow(w, t)) :
            /\ InList(d % DaysPerWeek, w.weekdays)
            /\ d * SecondsPerDay + w.end_time
                 + (IF w.end_time < w.start_time THEN SecondsPerDay ELSE 0)
                   <= LocalNow(w, t)
            /\ LocalNow(w, t)
                   <= d * SecondsPerDay + w.end_time
                        + (IF w.end_time < w.start_time THEN SecondsPerDay ELSE 0)
                        + g

\* C6 as stated: is_within_grace_period(now, grace) is true only if the
\* window is not active at now and now lies at or after an end boundary of
\* the window and no later than grace seconds after it.
C6_GraceOnlyAfterAnEnd ==
    \A i \in DOMAIN last.before :
        \A w \in LET uptime == UptimeWindows(i)
                    downtime == DowntimeWindows(i)
                IN  {uptime[k] : k \in 1..Len(uptime)}
                      \cup {downtime[k] : k \in 1..Len(downtime)} :
            IsWithinGracePeriod(w, now, config.grace_period)
                => /\ ~IsActive(w, now)
                   /\ WithinGraceOfAnEnd(w, now, config.grace_period)

\* The i-th resource has one uptime window, recurring and not overnight, and
\* no downtime window.
SoleUptimeWindow(i) ==
    LET uptime == UptimeWindows(i)
    IN  /\ Len(uptime) = 1
        /\ DowntimeWindows(i) = <<>>
        /\ uptime[1].recurring
        /\ uptime[1].end_time >= uptime[1].start_time

\* Local time `local` is after the end E of window w on a day of its set, and
\* no more than g seconds after it.
JustAfterEnd(w, local, g) ==
    \E d \in {DateOf(local) - 1, DateOf(local)} :
        /\ InList(d % DaysPerWeek, w.weekdays)
        /\ d * SecondsPerDay + w.end_time < local
        /\ local <= d * SecondsPerDay + w.end_time + g

\* The two halves of C7 for window w at local time `local`, the cycle having
\* reported r; `also` is what the first half requires besides E < t <= E + g.
GraceThenScaleDown(w, local, r, also) ==
    InList(WeekdayOf(local), w.weekdays)
        => /\ (JustAfterEnd(w, local, config.grace_period) /\ also)
                => (r.outcome = "grace" /\ ~r.called)
           /\ (TimeOf(local) > w.end_time + config.grace_period /\ ~config.dry_run)
                => (r.called /\ IsFloorOfPercent(r.to, r.original, r.pct))

\* C7 as stated: for a sole non-overnight recurring uptime window with end E
\* and grace g > 0, at every instant t on a weekday of the set with
\* E < t <= E + g the resource is not scaled, and at every t of that local
\* day with t > E + g the scale-down target is applied.
C7_SuppressedWithinGraceOfEnd ==
    \A i \in DOMAIN last.reports :
        (Evaluated(i) /\ config.grace_period > 0 /\ SoleUptimeWindow(i))
            => LET w == UptimeWindows(i)[1]
               IN  GraceThenScaleDown(w, LocalNow(w, now), last.reports[i], TRUE)

\* C7 amended: the same, the first half only for instants t at which the
\* window is not active (a window that starts at midnight is active again
\* within g of the previous day's end).
C7_SuppressedUnlessActiveAgain ==
    \A i \in DOMAIN last.reports :
        (Evaluated(i) /\ config.grace_period > 0 /\ SoleUptimeWindow(i))
            => LET w == UptimeWindows(i)[1]
               IN  GraceThenScaleDown(w, LocalNow(w, now), last.reports[i],
                                      ~IsActive(w, now))

\* A cycle suppressed within g of the end of the sole uptime window.
C7_Witness ==
    \E i \in DOMAIN last.reports :
        /\ Evaluated(i)
        /\ config.grace_period > 0
        /\ SoleUptimeWindow(i)
        /\ LET w == UptimeWindows(i)[1]
           IN  /\ InList(WeekdayOf(LocalNow(w, now)), w.weekdays)
               /\ JustAfterEnd(w, LocalNow(w, now), config.grace_period)
               /\ ~IsActive(w, now)
        /\ last.reports[i].outcome = "grace"

\* C8 as stated: a failure raised while a resource is evaluated is caught at
\* the per-resource boundary, and every resource after it in the list is
\* still evaluated in the same cycle.
C8_EveryResourceEvaluated ==
    CycleRan
        => \A i \in DOMAIN last.reports : last.reports[i].outcome # "unreached"

\* C9: with dry_run no cycle ever calls set_scale, so the resources are the
\* same after every step; what a cycle reports is never a scale applied.
C9_DryRunNeverApplies ==
    [][config.dry_run
          => /\ resources' = resources
             /\ \A i \in DOMAIN last'.reports :
                    /\ ~last'.reports[i].called
                    /\ last'.reports[i].outcome # "scaled"]_vars

\* A dry-run cycle that computed and reported a target other than the
\* current scale, the resource being as it was.
C9_Witness ==
    \E i \in DOMAIN last.reports :
        /\ config.dry_run
        /\ CycleRan
        /\ last.reports[i].outcome = "dry_run"
        /\ last.reports[i].to # last.reports[i].from
        /\ resources[i] = last.before[i]

\* C10 as stated: a second cycle at the same instant, with the same
\* configuration and tags, leaves every resource at the scale the first
\* cycle left it at.
C10_SecondRunChangesNothing ==
    last.runs >= 2
        => \A i \in DOMAIN last.reports : ScaleAfter(i) = ScaleBefore(i)

\* C11 as stated: a cycle that scales a resource while one of its uptime
\* windows is active works from the original scale the resource had before
\* the process first touched it, and leaves the resource at that scale.
C11_UptimeRestoresOriginal ==
    \A i \in DOMAIN last.reports :
        LET uptime == UptimeWindows(i)
        IN  (/\ CycleRan
             /\ ~config.dry_run
             /\ last.reports[i].outcome = "scaled"
             /\ AnyActive(uptime, now))
                => /\ last.reports[i].original = GetOriginalScale(listed[i])
                   /\ ScaleAfter(i) = GetOriginalScale(listed[i])

\* The downtime-scale tag of the i-th resource, None without one.
DowntimeScaleTag(i) ==
    DictGet(GetResourceTags(last.before[i]), "downtime-scale", None)

\* The cycle came to the i-th resource, should_process let it through, and
\* both of its window values parse.
Processable(i) ==
    /\ CycleRan
    /\ last.reports[i].outcome # "unreached"
    /\ ShouldProcess(last.before[i], now) = "yes"
    /\ ParseTimeSpecs(DictGet(GetResourceTags(last.before[i]), "uptime",
                              config.default_uptime)).ok
    /\ ParseTimeSpecs(DictGet(GetResourceTags(last.before[i]), "downtime",
                              config.default_downtime)).ok

\* C12: for a resource that is processed, the downtime percentage is the
\* downtime-scale tag when that is an integer from 0 to 100 and
\* config.downtime_scale in every other case (no tag, not an integer, out
\* of range); the cycle goes on to the scale decision, and the percentage
\* lies in 0..100.
C12_DowntimePercentResolved ==
    \A i \in DOMAIN last.reports :
        Processable(i)
            => LET given == DowntimeScaleTag(i)
                   parsed == PyInt(given)
               IN  /\ Evaluated(i)
                   /\ last.reports[i].pct =
                          (IF given # None /\ parsed.ok
                                /\ parsed.v >= 0 /\ parsed.v <= 100
                           THEN parsed.v
                           ELSE config.downtime_scale)
                   /\ last.reports[i].pct \in 0..100

\* A resource tagged with a downtime-scale that is not an integer was scaled
\* down by the configured percentage.
C12_Witness ==
    \E i \in DOMAIN last.reports :
        /\ Processable(i)
        /\ DowntimeScaleTag(i) # None
        /\ ~PyInt(DowntimeScaleTag(i)).ok
        /\ last.reports[i].outcome = "scaled"
        /\ last.reports[i].pct = config.downtime_scale
        /\ last.reports[i].to < last.reports[i].original

\* C13: Config(...) raises exactly when downtime_scale < 0, downtime_scale
\* > 100 or grace_period < 0, and yields a Config holding the arguments in
\* every other case; a Config that exists has 0 <= downtime_scale <= 100 and
\* grace_period >= 0.
C13_ConfigValidatedOnConstruction ==
    /\ last.outcome # "pending"
          => /\ last.outcome = "ValueError"
                    <=> \/ last.args.downtime_scale < 0
                        \/ last.args.downtime_scale > 100
                        \/ last.args.grace_period < 0
             /\ last.outcome = "constructed" <=> config = <<last.args>>
             /\ last.outcome = "ValueError" <=> config = <<>>
    /\ \A i \in DOMAIN config :
           /\ 0 <= config[i].downtime_scale
           /\ config[i].downtime_scale <= 100
           /\ config[i].grace_period >= 0

\* Config(..., grace_period=-1, ...) with a downtime_scale in range raised.
C13_Witness ==
    /\ last.outcome = "ValueError"
    /\ last.args.grace_period = -1
    /\ last.args.downtime_scale \in 0..100
    /\ config = <<>>

\* The value of a downscaler tag of the i-th resource, None without one.
TagOf(i, key) == DictGet(GetResourceTags(last.before[i]), key, None)

\* The cycle came to the i-th resource, which carries an exclude-until tag
\* and which nothing else keeps from being processed: no exclude tag, and
\* a name the include and exclude lists let through.
ExcludeUntilDecides(i) ==
    /\ CycleRan
    /\ last.reports[i].outcome # "unreached"
    /\ TagOf(i, "exclude") # "true"
    /\ TagOf(i, "exclude-until") # None
    /\ Listed(GetResourceName(last.before[i])) = "yes"

\* C14 as stated: should_process never raises over an exclude-until tag;
\* the resource is skipped when the value is a timestamp that now lies
\* before, and processed in every other case.
C14_ExcludeUntilNeverRaises ==
    \A i \in DOMAIN last.reports :
        ExcludeUntilDecides(i)
            => LET until_dt == FromIsoFormat(Replace(TagOf(i, "exclude-until"),
                                                     "Z", "+00:00"))
               IN  /\ last.reports[i].outcome # "aborted"
                   /\ last.reports[i].outcome = "skipped"
                          <=> (until_dt.ok /\ until_dt.aware /\ now < until_dt.utc)

\* C15: a resource whose exclude tag is "true" is skipped by every cycle
\* that comes to it, whatever its other tags, the configuration and the
\* instant: nothing of it is read or parsed, set_scale is not called, and
\* the resource stays as it was.
C15_ExcludedIsSkipped ==
    \A i \in DOMAIN last.reports :
        (CycleRan /\ TagOf(i, "exclude") = "true")
            => /\ last.reports[i] \in {NoReport("skipped"), NoReport("unreached")}
               /\ ~last.reports[i].called
               /\ resources[i] = last.before[i]

\* An excluded resource whose uptime tag does not parse and whose
\* exclude-until tag has no offset was skipped, and the cycle went on to
\* scale the next resource.
C15_Witness ==
    \E i, j \in DOMAIN last.reports :
        /\ CycleRan
        /\ TagOf(i, "exclude") = "true"
        /\ TagOf(i, "exclude-until") # None
        /\ ~ParseTimeSpecs(TagOf(i, "uptime")).ok
        /\ last.reports[i].outcome = "skipped"
        /\ last.reports[j].outcome = "scaled"

\* The name of the i-th resource matches an entry of exclude_resources, as
\* a name or as a pattern with a trailing "*".
Denied(i) ==
    \E k \in 1..Len(config.exclude_resources) :
        ExcludePatternMatches(config.exclude_resources[k],
                              GetResourceName(last.before[i]))

\* The cycle came to the i-th resource, which has neither an exclude nor an
\* exclude-until tag.
Untagged(i) ==
    /\ CycleRan
    /\ last.reports[i].outcome \notin {"unreached", "aborted"}
    /\ TagOf(i, "exclude") = None
    /\ TagOf(i, "exclude-until") = None

\* C16 as stated: with a non-empty include_resources a resource is
\* processed by the cycle exactly when its type ("asg", "ecs") is in the
\* list, whatever its name.
C16_IncludeListIsByType ==
    \A i \in DOMAIN last.reports :
        (Untagged(i) /\ config.include_resources # <<>> /\ ~Denied(i))
            => (last.reports[i].outcome # "skipped"
                    <=> InList(last.before[i].kind, config.include_resources))

\* C17 as stated: set_scale is never called for a resource whose name
\* equals an entry of exclude_resources or matches an entry that ends in
\* "*", and a resource that matches no entry is not skipped on account of
\* the list.
C17_ExcludeListDenies ==
    \A i \in DOMAIN last.reports :
        /\ (CycleRan /\ Denied(i))
              => /\ ~last.reports[i].called
                 /\ resources[i] = last.before[i]
        /\ (Untagged(i) /\ config.include_resources = <<>> /\ ~Denied(i))
              => last.reports[i].outcome # "skipped"

\* C18: every call of set_scale for an Auto Scaling Group, from a cycle or
\* direct, leaves DesiredCapacity at max(MinSize, min(scale, MaxSize));
\* DesiredCapacity stays within MinSize..MaxSize throughout; and a cycle
\* that scales down by percentage 0 leaves the group at MinSize.
C18_ClampedToGroupLimits ==
    \A i \in DOMAIN resources :
        resources[i].kind = "asg"
            => LET group == resources[i]
                   report == last.reports[i]
               IN  /\ group.MinSize <= group.DesiredCapacity
                   /\ group.DesiredCapacity <= group.MaxSize
                   /\ (report.called /\ report.outcome \in {"scaled", "set_scale"})
                         => group.DesiredCapacity =
                               (IF report.to < group.MinSize THEN group.MinSize
                                ELSE IF report.to > group.MaxSize THEN group.MaxSize
                                ELSE report.to)
                   /\ (report.outcome = "scaled" /\ report.pct = 0
                          /\ report.to < report.original)
                         => (report.to = 0 /\ group.DesiredCapacity = group.MinSize)

\* set_scale(group, 10) left a group with MinSize 1 and MaxSize 5 at 5.
C18_Witness ==
    \E i \in DOMAIN resources :
        /\ resources[i].kind = "asg"
        /\ resources[i].MinSize = 1
        /\ resources[i].MaxSize = 5
        /\ last.reports[i].outcome = "set_scale"
        /\ last.reports[i].to = 10
        /\ resources[i].DesiredCapacity = 5

\* is_active has answered for a recurring window.
AskedRecurring == last.stage = "asked" /\ last.window.recurring

\* The weekday of now in the window's timezone is one of the window's.
OnWeekdayOfWindow ==
    InList(WeekdayOf(now + UtcOffset(last.window.timezone)), last.window.weekdays)

\* The time of day of now in the window's timezone, in seconds.
LocalTimeOfDay == TimeOf(now + UtcOffset(last.window.timezone))

(***************************************************************************)
(* The same process over configurations with a default for either role,   *)
(* the default uptime recurring, overnight or absolute, and resources     *)
(* with a tag for one role, for both or for none.                         *)
(***************************************************************************)

RoleConfigs ==
    {c \in [dry_run : BOOLEAN,
            default_uptime : {None, "Mon-Fri 09:00-17:00 UTC",
                              "Mon-Fri 22:00-06:00 UTC",
                              "2024-03-15T08:00:00-04:00"},
            default_downtime : {None, "Sat-Sun 00:00-23:59 UTC"},
            grace_period : {0, 300},
            include_resources : {<<>>},
            exclude_resources : {<<>>},
            downtime_scale : {50}] : ConfigValid(c)}

RoleTagLists ==
    {<<>>,
     <<Tag("downscaler:uptime", "Sat-Sun 09:00-17:00 UTC")>>,
     <<Tag("downscaler:downtime", "Thu 00:00-23:59 UTC")>>,
     <<Tag("downscaler:uptime", "Thu-Fri 09:00-17:00 UTC"),
       Tag("downscaler:downtime", "Fri 00:00-23:59 UTC")>>,
     <<Tag("downscaler:uptime", "")>>}

InitRoles ==
    /\ config \in RoleConfigs
    /\ resources \in {<<Asg(1, 5, 3, tags)>> : tags \in RoleTagLists}
                       \cup {<<Ecs(4)>>}
    /\ now \in Instants
    /\ last = NoCycle(resources)
    /\ listed = resources

SpecRoles == InitRoles /\ [][Next]_vars

(***************************************************************************)
(* TimeWindow.parse_time_specs as a function of its argument: texts of up  *)
(* to MaxSegments pieces, commas and semicolons between them.  `last`      *)
(* holds the pieces the text was written from, the text, and the result.   *)
(***************************************************************************)

\* How many pieces a text is put together from.
MaxSegments == 3

Segments ==
    {"", " ",
     "Mon-Fri 09:00-17:00 UTC",
     " Sat 10:00-14:00 UTC ",
     "2024-03-16T12:00:00Z",
     "Funday 09:00-17:00 UTC",
     "2024-03-16",
     "9999-12-31T23:00:00-14:00"}

RECURSIVE Join(_, _)
\* The pieces with the separators between them.
Join(segments, seps) ==
    IF Len(segments) = 1 THEN segments[1]
    ELSE segments[1] \o seps[1] \o Join(Tail(segments), Tail(seps))

InitSpecs ==
    /\ config = <<>>
    /\ resources = <<>>
    /\ listed = <<>>
    /\ now = Instant(2024, 3, 14, 10, 0, 0)
    /\ \/ last = [segments |-> <<>>, specs |-> None, stage |-> "given",
                  result |-> Windows(<<>>)]
       \/ \E n \in 1..MaxSegments :
             \E segments \in [1..n -> Segments],
                seps \in [1..(n - 1) -> {",", ";"}] :
                 last = [segments |-> segments, specs |-> Join(segments, seps),
                         stage |-> "given", result |-> Windows(<<>>)]

\* TimeWindow.parse_time_specs(specs) returned its list, or raised.
CallParseTimeSpecs ==
    /\ last.stage = "given"
    /\ last' = [last EXCEPT !.stage = "called",
                            !.result = ParseTimeSpecs(last.specs)]
    /\ UNCHANGED <<config, resources, now, listed>>

SpecSpecs == InitSpecs /\ [][CallParseTimeSpecs]_vars

\* C19: a recurring window, overnight or not, is not active at an instant
\* whose weekday in the window's timezone is not one of the window's
\* weekdays.
C19_InactiveOffWeekdays ==
    (AskedRecurring /\ ~OnWeekdayOfWindow) => ~last.active

\* An overnight window asked at an hour within its span on a day that is
\* not one of its weekdays.
C19_Witness ==
    /\ AskedRecurring
    /\ ~OnWeekdayOfWindow
    /\ last.window.end_time < last.window.start_time
    /\ LocalTimeOfDay <= last.window.end_time
    /\ ~last.active

\* C20: a recurring window is active exactly when the local weekday is one
\* of its weekdays and the local time lies within start_time..end_time (both
\* ends included) for end_time >= start_time, or is at or after start_time
\* or at or before end_time for end_time < start_time.
C20_ActiveByReferenceRule ==
    AskedRecurring
        => (last.active
              <=> /\ OnWeekdayOfWindow
                  /\ IF last.window.end_time >= last.window.start_time
                     THEN /\ last.window.start_time <= LocalTimeOfDay
                          /\ LocalTimeOfDay <= last.window.end_time
                     ELSE \/ LocalTimeOfDay >= last.window.start_time
                          \/ LocalTimeOfDay <= last.window.end_time)

\* Mon-Fri 22:00-06:00 UTC answered active at 06:00:00 on a weekday in the
\* set.
C20_Witness ==
    /\ AskedRecurring
    /\ last.spec = "Mon-Fri 22:00-06:00 UTC"
    /\ OnWeekdayOfWindow
    /\ LocalTimeOfDay = TimeObj(6, 0)
    /\ last.active

\* The instants in UTC that the date-times with an offset among WindowSpecs
\* denote.
OffsetInstant ==
    ("2024-03-16T12:00:00Z" :> Instant(2024, 3, 16, 12, 0, 0))
      @@ ("2024-03-15T21:00:00-04:00" :> Instant(2024, 3, 16, 1, 0, 0))
      @@ ("2024-03-14T04:00:00+09:00" :> Instant(2024, 3, 13, 19, 0, 0))

\* 23:59:59 UTC on the UTC date of instant t.
EndOfUtcDay(t) == DateOf(t) * SecondsPerDay + Clock(23, 59, 59)

\* C21: a date-time with an explicit offset parses to an absolute window
\* that starts at that instant in UTC and ends at 23:59:59 UTC on the UTC
\* date of its start; is_active holds exactly from the start to the end,
\* both included.
C21_AbsoluteWindowSpan ==
    (last.spec \in DOMAIN OffsetInstant /\ last.stage # "given")
        => /\ last.stage \in {"parsed", "asked"}
           /\ ~last.window.recurring
           /\ last.window.start_dt = OffsetInstant[last.spec]
           /\ last.window.end_dt = EndOfUtcDay(OffsetInstant[last.spec])
           /\ last.stage = "asked"
                 => (last.active
                       <=> /\ OffsetInstant[last.spec] <= now
                           /\ now <= EndOfUtcDay(OffsetInstant[last.spec]))

\* 2024-03-15T21:00:00-04:00, which starts on the 16th in UTC, answered
\* active at 23:59:59 UTC on the 16th.
C21_Witness ==
    /\ last.stage = "asked"
    /\ last.spec = "2024-03-15T21:00:00-04:00"
    /\ now = Instant(2024, 3, 16, 23, 59, 59)
    /\ last.active

\* The names of the weekday token of the specification given: its first
\* word, lower-cased, split at the dash.
TokenNames == SplitOn(StrLower(Head(SplitWhitespace(last.spec))), {"-"})

\* The specification given starts with one weekday name or a range of two.
HasWeekdayToken ==
    /\ Len(TokenNames) \in {1, 2}
    /\ \A i \in 1..Len(TokenNames) : TokenNames[i] \in DOMAIN WEEKDAYS

\* The days from weekday a to weekday b, over the end of the week if b < a.
DaysFromTo(a, b) == IF b >= a THEN a..b ELSE (a..6) \cup (0..b)

\* The days the weekday token of the specification given stands for.
TokenDays ==
    DaysFromTo(WEEKDAYS[TokenNames[1]], WEEKDAYS[TokenNames[Len(TokenNames)]])

\* C22: the weekday token of a specification that parsed, a single name or
\* a range start-end, gives the window exactly the days start..end, over the
\* end of the week when end < start, and never no day at all.
C22_WeekdayTokenExpanded ==
    (last.stage \in {"parsed", "asked"} /\ HasWeekdayToken)
        => /\ last.window.weekdays # <<>>
           /\ {last.window.weekdays[i] : i \in 1..Len(last.window.weekdays)}
                 = TokenDays

\* The words of the specification given.
GivenWords == SplitWhitespace(last.spec)

\* A time of day written HH:MM, hour 0..23 and minute 0..59.
IsClock(t) ==
    /\ Len(t) = 5
    /\ AllDigits(SubSeq(t, 1, 2)) /\ Char(t, 3) = ":" /\ AllDigits(SubSeq(t, 4, 5))
    /\ NatVal(SubSeq(t, 1, 2), 0) <= 23
    /\ NatVal(SubSeq(t, 4, 5), 0) <= 59

\* HH:MM-HH:MM
IsClockRange(t) ==
    Len(t) = 11 /\ IsClock(SubSeq(t, 1, 5)) /\ Char(t, 6) = "-"
        /\ IsClock(SubSeq(t, 7, 11))

\* The specification given is a date-time: it starts with a digit.
GivenDateTime == Head(last.spec) \in Digits

\* The date-time given ends in Z or in an offset +HH:MM or -HH:MM.
GivenOffset ==
    \/ Char(last.spec, Len(last.spec)) = "Z"
    \/ /\ Len(last.spec) > 6
       /\ Char(last.spec, Len(last.spec) - 5) \in {"+", "-"}
       /\ IsClock(SubSeq(last.spec, Len(last.spec) - 4, Len(last.spec)))

\* The specification given has an unknown weekday name, a time token that is
\* not HH:MM-HH:MM, an unknown timezone, or is a date-time without offset.
Malformed ==
    IF GivenDateTime THEN ~GivenOffset
    ELSE \/ ~HasWeekdayToken
         \/ Len(GivenWords) < 2
         \/ ~IsClockRange(GivenWords[2])
         \/ Len(GivenWords) >= 3 /\ ~ZoneKnown(GivenWords[3])

\* C23: a specification with an unknown weekday name, a time token that is
\* not numeric HH:MM with hour 0..23 and minute 0..59, an unknown timezone,
\* or a date-time without an explicit offset, is rejected: TimeWindow raises
\* and no window comes of it.
C23_MalformedRejected ==
    (last.stage # "given" /\ Malformed)
        => (last.stage = "rejected" /\ ~last.window.ok)

\* The pieces of the text given that are not blank, trimmed, in order.
KeptSegments ==
    SelectSeq([i \in 1..Len(last.segments) |-> Strip(last.segments[i], Whitespace)],
              LAMBDA p : p # "")

\* The pieces among Segments that are not a window: an unknown weekday, a
\* date without an offset, a date-time whose instant in UTC is past the
\* year 9999.
InvalidSegments ==
    {"Funday 09:00-17:00 UTC", "2024-03-16", "9999-12-31T23:00:00-14:00"}

\* The first of the kept pieces that is not a window.
FirstInvalid ==
    KeptSegments[CHOOSE i \in 1..Len(KeptSegments) :
                    /\ KeptSegments[i] \in InvalidSegments
                    /\ \A j \in 1..(i - 1) : KeptSegments[j] \notin InvalidSegments]

\* C24: parse_time_specs splits at commas and semicolons, trims the pieces
\* and drops the blank ones; when every piece left is valid it returns one
\* window per piece in the order of the text (none for None and for the
\* empty text); otherwise it returns no list and raises an error that names
\* the first piece that is not valid.
C24_PiecesParsedInOrder ==
    last.stage = "called"
        => IF \A i \in 1..Len(KeptSegments) : KeptSegments[i] \notin InvalidSegments
           THEN /\ last.result.ok
                /\ Len(last.result.windows) = Len(KeptSegments)
                /\ \A i \in 1..Len(KeptSegments) :
                       last.result.windows[i] = ParseSpec(KeptSegments[i])
           ELSE /\ ~last.result.ok
                /\ last.result.windows = <<>>
                /\ last.result.named = FirstInvalid

\* The windows of the i-th resource for a role: those of its tag for the
\* role if it has one, else those of the default.
RoleWindows(i, role, default) ==
    IF TagOf(i, role) # None THEN ParseTimeSpecs(TagOf(i, role)).windows
    ELSE ParseTimeSpecs(default).windows

\* Report r is what _process_resource comes to at instant t with the uptime
\* and downtime windows given and grace period g.
DecidedFrom(r, uptime, downtime, t, g) ==
    IF g > 0 /\ \E k \in 1..Len(uptime) : IsWithinGracePeriod(uptime[k], t, g)
    THEN r.outcome = "grace"
    ELSE /\ r.outcome # "grace"
         /\ IF AnyActive(uptime, t) THEN r.to = r.original
            ELSE IF uptime # <<>> \/ downtime # <<>>
                 THEN IsFloorOfPercent(r.to, r.original, r.pct)
                 ELSE r.to = r.original

\* C25: the uptime (downtime) windows of a resource are those of its uptime
\* (downtime) tag alone when it has one, the default for that role being
\* left out altogether, and those of the default when it has none; a tag for
\* one role leaves the other role to its default.
C25_TagShadowsDefault ==
    \A i \in DOMAIN last.reports :
        Evaluated(i)
            => DecidedFrom(last.reports[i],
                           RoleWindows(i, "uptime", config.default_uptime),
                           RoleWindows(i, "downtime", config.default_downtime),
                           now, config.grace_period)

\* A resource with an uptime tag and no downtime tag is scaled down while the
\* default uptime window, which the tag shadows, is active; the default
\* downtime is there and not active.
C25_Witness ==
    \E i \in DOMAIN last.reports :
        /\ Targeted(i)
        /\ TagOf(i, "uptime") # None
        /\ TagOf(i, "downtime") = None
        /\ config.default_uptime # None
        /\ AnyActive(ParseTimeSpecs(config.default_uptime).windows, now)
        /\ config.default_downtime # None
        /\ ~AnyActive(ParseTimeSpecs(config.default_downtime).windows, now)
        /\ last.reports[i].outcome = "scaled"
        /\ last.reports[i].to < last.reports[i].original

\* Some uptime window of the i-th resource has closed at `now` or within the
\* grace period before it.
ClosedWithinGrace(i) ==
    \E k \in 1..Len(UptimeWindows(i)) :
        WithinGraceOfAnEnd(UptimeWindows(i)[k], now, config.grace_period)

\* C26: with a grace period g > 0 and no dry run, a cycle at an instant at
\* which no uptime window of the resource is active, and which is not
\* within g seconds after the end of one, is not suppressed: it scales the
\* resource down to the floor of original * percent / 100.  This for
\* recurring, overnight and absolute uptime windows alike, before a window
\* has started as well as after it has closed.
C26_SuppressedOnlyWithinGraceOfEnd ==
    \A i \in DOMAIN last.reports :
        (/\ Evaluated(i)
         /\ ~config.dry_run
         /\ config.grace_period > 0
         /\ UptimeWindows(i) # <<>>
         /\ ~AnyActive(UptimeWindows(i), now)
         /\ ~ClosedWithinGrace(i))
            => /\ last.reports[i].outcome = "scaled"
               /\ IsFloorOfPercent(last.reports[i].to, last.reports[i].original,
                                   last.reports[i].pct)

\* The handler of the i-th resource's kind raised in the cycle: its loop
\* ended at one of its resources.
HandlerRaised(i) ==
    \E j \in DOMAIN last.reports :
        /\ last.before[j].kind = last.before[i].kind
        /\ last.reports[j].outcome = "aborted"

\* Every handler was called in the cycle: a resource the cycle did not reach
\* is one of a handler that raised itself.
EveryHandlerCalled ==
    CycleRan
        => \A i \in DOMAIN last.reports :
               last.reports[i].outcome = "unreached" => HandlerRaised(i)

\* A cycle in which a handler raised, at an instant that is not the last.
HandlerFailed ==
    /\ CycleRan
    /\ \E i \in DOMAIN last.reports : last.reports[i].outcome = "aborted"
    /\ \E t \in Instants : t > now

\* C27: a failure raised by one handler in run_once is caught and the
\* handlers after it are still called in the same cycle; no such failure
\* ends the loop of run: after the cycle the loop sleeps, and after every
\* sleep a cycle runs.
C27_HandlerFailureKeepsLoop ==
    /\ []EveryHandlerCalled
    /\ HandlerFailed ~> (last.runs = 0)
    /\ (last.runs = 0) ~> CycleRan

\* The handler of the Auto Scaling Groups raised and the ECS service after it
\* in the list was scaled in the same cycle.
C27_Witness ==
    /\ CycleRan
    /\ Len(last.reports) = 2
    /\ last.before[1].kind = "asg"
    /\ last.reports[1].outcome = "aborted"
    /\ last.before[2].kind = "ecs"
    /\ last.reports[2].outcome = "scaled"

\* The i-th resource has windows of one role or the other and none of its
\* uptime windows is active at the instant of the cycle.
OutsideUptime(i) ==
    /\ ~AnyActive(UptimeWindows(i), now)
    /\ (UptimeWindows(i) # <<>> \/ DowntimeWindows(i) # <<>>)

\* C28: the target of a cycle that is not suppressed is the downtime share
\* of the original scale exactly when no uptime window is active and a
\* window of either role is configured, and the original scale otherwise;
\* whether a downtime window is active makes no difference.
C28_DowntimeActivityIgnored ==
    \A i \in DOMAIN last.reports :
        Targeted(i)
            => IF OutsideUptime(i)
               THEN IsFloorOfPercent(last.reports[i].to, last.reports[i].original,
                                     last.reports[i].pct)
               ELSE last.reports[i].to = last.reports[i].original

\* A resource with downtime windows only, none of them active, was given a
\* target below its original scale.
C28_Witness ==
    \E i \in DOMAIN last.reports :
        /\ Targeted(i)
        /\ UptimeWindows(i) = <<>>
        /\ DowntimeWindows(i) # <<>>
        /\ ~AnyActive(DowntimeWindows(i), now)
        /\ last.reports[i].to < last.reports[i].original

\* An overnight recurring window was asked at a local time in its
\* early-morning tail.
AskedInTail ==
    /\ AskedRecurring
    /\ last.window.end_time < last.window.start_time
    /\ LocalTimeOfDay <= last.window.end_time

\* The weekday of the local day before is one of the window's weekdays.
SpanStartedOnWeekdayOfWindow ==
    InList(WeekdayOf(now + UtcOffset(last.window.timezone) - SecondsPerDay),
           last.window.weekdays)

\* C29: in the early-morning tail of an overnight recurring window the
\* window is active exactly when the weekday of the current local day is one
\* of its weekdays, whatever the weekday of the day before; Mon-Fri
\* 22:00-06:00 is active on Monday at 05:00 and not on Saturday at 05:00.
C29_TailTestsToday ==
    /\ AskedInTail => (last.active <=> OnWeekdayOfWindow)
    /\ (last.stage = "asked" /\ last.spec = "Mon-Fri 22:00-06:00 UTC")
         => /\ now = Instant(2024, 3, 11, 5, 0, 0) => last.active
            /\ now = Instant(2024, 3, 16, 5, 0, 0) => ~last.active

\* A window answered active in its tail on one of its weekdays although the
\* day before, on which the span started, is not one of them.
C29_Witness ==
    /\ AskedInTail
    /\ OnWeekdayOfWindow
    /\ ~SpanStartedOnWeekdayOfWindow
    /\ last.active

====
